---- MODULE Spec2Model ----
(***************************************************************************)
(* Sysy-alpha front end: lexer (src/src/lexer.rs), parser                  *)
(* (src/src/parser.rs) and semantic analyzer (src/src/semantics.rs).       *)
(*                                                                         *)
(* Characters are one-character strings, buffers are sequences of them.    *)
(* Offsets are kept 0-based as in the source; chars.get(i) is At(chars,i). *)
(***************************************************************************)
EXTENDS Integers, Sequences, FiniteSets, TLC

VARIABLES lexer, parser, sem

vars == <<lexer, parser, sem>>

(***************************************************************************)
(* Bounds of the model.                                                    *)
(***************************************************************************)
\* longest character buffer the lexer specification enumerates
MaxLen == 4

(***************************************************************************)
(* Generic helpers.                                                        *)
(***************************************************************************)
\* "no value" of an Option<u32> / Option<usize>
None == -1

\* chars.get(i): the character at 0-based offset i, or "" past the end
At(s, i) == IF i >= 0 /\ i < Len(s) THEN s[i + 1] ELSE ""

\* s[from..to] with 0-based half-open offsets
Slice(s, from, to) == IF to <= from THEN <<>> ELSE SubSeq(s, from + 1, to)

DecDigits == <<"0", "1", "2", "3", "4", "5", "6", "7", "8", "9">>
LowerLetters == <<"a", "b", "c", "d", "e", "f", "g", "h", "i", "j", "k", "l", "m",
                  "n", "o", "p", "q", "r", "s", "t", "u", "v", "w", "x", "y", "z">>
UpperLetters == <<"A", "B", "C", "D", "E", "F", "G", "H", "I", "J", "K", "L", "M",
                  "N", "O", "P", "Q", "R", "S", "T", "U", "V", "W", "X", "Y", "Z">>

DigitChars == {DecDigits[i] : i \in 1..10}
AlphaChars == {LowerLetters[i] : i \in 1..26} \cup {UpperLetters[i] : i \in 1..26}

\* the value of every character that is a digit in some base up to 36
DigitValue ==
    [c \in DigitChars \cup AlphaChars |->
        IF c \in DigitChars THEN (CHOOSE i \in 1..10 : DecDigits[i] = c) - 1
        ELSE (CHOOSE i \in 1..26 : LowerLetters[i] = c \/ UpperLetters[i] = c) + 9]

IsDigit(c) == c \in DigitChars
IsAlpha(c) == c \in AlphaChars

\* char::to_digit(base): the digit's value when c is a digit of that base, else None
to_digit(c, base) ==
    IF c \in DOMAIN DigitValue /\ DigitValue[c] < base THEN DigitValue[c] ELSE None

(***************************************************************************)
(* Lexer.                                                                  *)
(***************************************************************************)
\* Token::new: the end offset is 0 until the caller sets it
Token(sort, num, name, line_start, line_no, startpos) ==
    [sort |-> sort, num |-> num, name |-> name, line_start |-> line_start,
     line_no |-> line_no, startpos |-> startpos, endpos |-> 0]

\* Lexer::new over an already read character buffer
LexerNew(chars) ==
    [chars |-> chars, current |-> 0, line_starts |-> <<0>>, line_no |-> 1,
     tokens |-> <<>>, is_panicked |-> FALSE, pc |-> "scan"]

\* Lexer::new_token: a token of the given sort starting at the cursor
new_token(L, sort, num, name) ==
    Token(sort, num, name, L.line_starts[L.line_no], L.line_no, L.current)

\* push a token that ends at offset endpos and move the cursor there
PushToken(L, t, endpos) ==
    [L EXCEPT !.current = endpos,
              !.tokens = Append(L.tokens, [t EXCEPT !.endpos = endpos])]

\* Lexer::pre_process: the class of the character under the cursor
pre_process(L) ==
    LET c == At(L.chars, L.current)
    IN IF L.current >= Len(L.chars) THEN "Eof"
       ELSE IF c = " " \/ c = "\t" THEN "Spacebar"
       ELSE IF c = "\n" THEN "Linefeed"
       ELSE IF IsAlpha(c) THEN "Alphabet"
       ELSE IF IsDigit(c) THEN "Digit"
       ELSE "Other"

\* number of leading characters of s that are digits of the base
RECURSIVE DigitRun(_, _, _)
DigitRun(s, i, base) ==
    IF i < Len(s) /\ to_digit(At(s, i), base) # None
    THEN 1 + DigitRun(s, i + 1, base) ELSE 0

\* the accumulation sum = sum * base + val over the len digits from offset i
RECURSIVE DigitSum(_, _, _, _, _)
DigitSum(s, i, len, base, sum) ==
    IF len = 0 THEN sum
    ELSE DigitSum(s, i + 1, len - 1, base, sum * base + to_digit(At(s, i), base))

\* Lexer::parse_number: the token starts at the cursor as it is on entry
parse_number(L, base) ==
    LET len == DigitRun(L.chars, L.current, base)
        sum == DigitSum(L.chars, L.current, len, base, 0)
        t == new_token(L, "IntNumber", sum, <<>>)
    IN PushToken(L, t, L.current + len)

\* number with the leading-0 arm lost: every literal without 0x is base 10
number_no_octal(L) ==
    LET c0 == At(L.chars, L.current)
        c1 == At(L.chars, L.current + 1)
        two == L.current + 2 <= Len(L.chars)
    IN IF two /\ c0 = "0" /\ (c1 = "x" \/ c1 = "X")
       THEN parse_number([L EXCEPT !.current = L.current + 2], 16)
       ELSE parse_number(L, 10)

\* Lexer::number: the base is chosen from the two characters at the cursor
number(L) ==
    LET c0 == At(L.chars, L.current)
        c1 == At(L.chars, L.current + 1)
        two == L.current + 2 <= Len(L.chars)
    IN IF two /\ c0 = "0" /\ (c1 = "x" \/ c1 = "X")
       THEN parse_number([L EXCEPT !.current = L.current + 2], 16)
       ELSE IF two /\ c0 = "0" THEN parse_number(L, 8)
       ELSE parse_number(L, 10)

\* the fixed keyword table; "" when the name is no keyword
keyword_table_init(name) ==
    IF name = <<"i", "n", "t">> THEN "Int"
    ELSE IF name = <<"f", "l", "o", "a", "t">> THEN "Float"
    ELSE IF name = <<"v", "o", "i", "d">> THEN "Void"
    ELSE IF name = <<"c", "o", "n", "s", "t">> THEN "Const"
    ELSE IF name = <<"i", "f">> THEN "If"
    ELSE IF name = <<"e", "l", "s", "e">> THEN "Else"
    ELSE IF name = <<"w", "h", "i", "l", "e">> THEN "While"
    ELSE IF name = <<"c", "o", "n", "t", "i", "n", "u", "e">> THEN "Continue"
    ELSE IF name = <<"b", "r", "e", "a", "k">> THEN "Break"
    ELSE IF name = <<"r", "e", "t", "u", "r", "n">> THEN "Return"
    ELSE ""

\* the fixed two-character operator table; "" when the pair is no operator
double_sign_table_init(pair) ==
    IF pair = <<"=", "=">> THEN "Equal"
    ELSE IF pair = <<"!", "=">> THEN "NotEqual"
    ELSE IF pair = <<"&", "&">> THEN "And"
    ELSE IF pair = <<"|", "|">> THEN "Or"
    ELSE IF pair = <<">", "=">> THEN "GreatEqual"
    ELSE IF pair = <<"<", "=">> THEN "LessEqual"
    ELSE ""

\* Lexer::single_sign; "" when the character is no operator or punctuation
single_sign(c) ==
    IF c = "+" THEN "Plus" ELSE IF c = "-" THEN "Minus"
    ELSE IF c = "*" THEN "Multi" ELSE IF c = "/" THEN "Divide"
    ELSE IF c = "%" THEN "Mods" ELSE IF c = "=" THEN "Assign"
    ELSE IF c = "<" THEN "Lesserthan" ELSE IF c = ">" THEN "Greaterthan"
    ELSE IF c = "!" THEN "Not" ELSE IF c = "," THEN "Comma"
    ELSE IF c = ";" THEN "Semicolon" ELSE IF c = "(" THEN "LeftParen"
    ELSE IF c = ")" THEN "RightParen" ELSE IF c = "[" THEN "LeftBracket"
    ELSE IF c = "]" THEN "RightBracket" ELSE IF c = "{" THEN "LeftBrace"
    ELSE IF c = "}" THEN "RightBrace" ELSE ""

\* length of the identifier at offset i: the first character plus the run of
\* letters, digits and underscores after it
RECURSIVE IdentRun(_, _)
IdentRun(s, i) ==
    LET c == At(s, i)
    IN IF i < Len(s) /\ (IsAlpha(c) \/ IsDigit(c) \/ c = "_")
       THEN 1 + IdentRun(s, i + 1) ELSE 0

\* Lexer::scan_identifier
scan_identifier(L) ==
    LET len == 1 + IdentRun(L.chars, L.current + 1)
        name == Slice(L.chars, L.current, L.current + len)
        kw == keyword_table_init(name)
        t == IF kw # "" THEN new_token(L, kw, 0, <<>>)
             ELSE new_token(L, "Identifier", 0, name)
    IN PushToken(L, t, L.current + len)

\* offset of the first linefeed at or after i, None when the buffer has none
RECURSIVE NextLinefeed(_, _)
NextLinefeed(s, i) ==
    IF i >= Len(s) THEN None
    ELSE IF At(s, i) = "\n" THEN i
    ELSE NextLinefeed(s, i + 1)

\* Lexer::line_comment: the loop ends only on a linefeed; without one the
\* cursor runs past the end of the buffer and the loop never ends
line_comment(L) ==
    LET lf == NextLinefeed(L.chars, L.current)
    IN IF lf # None THEN [L EXCEPT !.current = lf]
       ELSE [L EXCEPT !.current = Len(L.chars) + 1, !.pc = "hang"]

\* error made fatal at once: the panic is raised where the error is met
error_abort(L) == [L EXCEPT !.is_panicked = TRUE, !.pc = "panicked"]

\* Lexer::error: the report is printed, the cursor skips one character and
\* the flag is set
error(L) == [L EXCEPT !.current = L.current + 1, !.is_panicked = TRUE]

\* the loop of block_comment with the linefeeds skipped like any character
RECURSIVE BlockCommentLoop_one_line(_)
BlockCommentLoop_one_line(L) ==
    IF L.current >= Len(L.chars) THEN error(L)
    ELSE IF At(L.chars, L.current) = "*" /\ At(L.chars, L.current + 1) = "/"
    THEN [L EXCEPT !.current = L.current + 2]
    ELSE BlockCommentLoop_one_line([L EXCEPT !.current = L.current + 1])

\* the loop of Lexer::block_comment from offset L.current on
RECURSIVE BlockCommentLoop(_)
BlockCommentLoop(L) ==
    LET c == At(L.chars, L.current)
    IN IF L.current >= Len(L.chars) THEN error(L)
       ELSE IF c = "*" /\ At(L.chars, L.current + 1) = "/"
       THEN [L EXCEPT !.current = L.current + 2]
       ELSE IF c = "\n"
       THEN BlockCommentLoop([L EXCEPT !.line_no = L.line_no + 1,
                                       !.line_starts = Append(L.line_starts, L.current + 1),
                                       !.current = L.current + 1])
       ELSE BlockCommentLoop([L EXCEPT !.current = L.current + 1])

\* Lexer::block_comment
block_comment(L) == BlockCommentLoop([L EXCEPT !.current = L.current + 2])

\* the Divide token of the scan loop
divide(L) == PushToken(L, new_token(L, "Divide", 0, <<>>), L.current + 1)

\* the double_signs lookup of the scan loop; "" when fewer than two characters
\* are left or they are no operator
DoubleAt(L) ==
    IF L.current + 2 <= Len(L.chars)
    THEN double_sign_table_init(Slice(L.chars, L.current, L.current + 2))
    ELSE ""

\* one iteration of the loop of Lexer::scan, by the class of the character
ScanKind(L) ==
    LET cls == pre_process(L)
        c == At(L.chars, L.current)
        c1 == At(L.chars, L.current + 1)
    IN IF cls # "Other" THEN cls
       ELSE IF c = "/" THEN (IF c1 = "/" THEN "LineComment"
                             ELSE IF c1 = "*" THEN "BlockComment"
                             ELSE "Divide")
       ELSE IF DoubleAt(L) # "" THEN "DoubleSign"
       ELSE IF single_sign(c) # "" THEN "SingleSign"
       ELSE "Invalid"

\* the end of tokenize once scan has returned: panic when the flag is set
tokenize_end(L) ==
    IF L.is_panicked THEN [L EXCEPT !.pc = "panicked"]
    ELSE [L EXCEPT !.pc = "returned"]


(***************************************************************************)
(* The lexer as a state machine: one action per arm of the scan loop.      *)
(***************************************************************************)
\* the characters the enumerated buffers are built from: blank, tab, linefeed,
\* digits (0, octal 1 and 7, non-octal 8), the hexadecimal prefix letter, a
\* hexadecimal digit letter, the comment characters, an operator that is also
\* half of a two-character operator, and a character of no table
LexAlphabet == {" ", "\t", "\n", "0", "1", "7", "8", "x", "A", "/", "*", "=", "."}

LexInputs == UNION {[1..n -> LexAlphabet] : n \in 0..MaxLen}

\* the stages that have not started
ParserIdle == [pc |-> "idle"]
SemIdle == [pc |-> "idle"]

\* longer buffers for the lines: a block comment with up to two characters
\* in it, linefeeds among them, after nothing or a line, and a token after it
LineInputs ==
    {pre \o <<"/", "*">> \o mid \o <<"*", "/">> \o post :
        pre \in {<<>>, <<"\n">>, <<"1", "\n">>},
        mid \in UNION {[1..n -> {"\n", "*", "1"}] : n \in 0..2},
        post \in {<<"1">>, <<"\n", "1">>, <<" ", "x">>, <<"/", "/", "\n", "=">>}}

LexInit ==
    /\ \E chars \in LexInputs \cup LineInputs : lexer = LexerNew(chars)
    /\ parser = ParserIdle
    /\ sem = SemIdle

\* CharType::Spacebar
spacebar(L) == [L EXCEPT !.current = L.current + 1]

\* the linefeed arm without the record of the new line's start
linefeed_no_start(L) ==
    [L EXCEPT !.current = L.current + 1, !.line_no = L.line_no + 1]

\* CharType::Linefeed
linefeed(L) ==
    [L EXCEPT !.current = L.current + 1,
              !.line_no = L.line_no + 1,
              !.line_starts = Append(L.line_starts, L.current + 1)]

\* the two-character operator arm of CharType::Other
double_sign(L) == PushToken(L, new_token(L, DoubleAt(L), 0, <<>>), L.current + 2)

\* the single-character operator arm of CharType::Other
one_sign(L) ==
    PushToken(L, new_token(L, single_sign(At(L.chars, L.current)), 0, <<>>),
              L.current + 1)

\* one iteration of the loop of Lexer::scan
scan_step(L) ==
    LET k == ScanKind(L)
    IN CASE k = "Spacebar" -> spacebar(L)
         [] k = "Linefeed" -> linefeed(L)
         [] k = "Digit" -> number(L)
         [] k = "Alphabet" -> scan_identifier(L)
         [] k = "LineComment" -> line_comment(L)
         [] k = "BlockComment" -> block_comment(L)
         [] k = "Divide" -> divide(L)
         [] k = "DoubleSign" -> double_sign(L)
         [] k = "SingleSign" -> one_sign(L)
         [] OTHER -> error(L)

\* one iteration of the loop of Lexer::scan, or the end of tokenize at the end
\* of the buffer; nothing once tokenize has ended
scan_or_end(L) ==
    CASE L.pc # "scan" -> L
      [] L.pc = "scan" /\ pre_process(L) = "Eof" -> tokenize_end(L)
      [] OTHER -> scan_step(L)

\* tokenize run to its end on a buffer (a scan that never ends stays "hang");
\* the loop is unrolled, eight iterations for each recursion
RECURSIVE ScanAll(_)
ScanAll(L) ==
    IF L.pc # "scan" THEN L
    ELSE ScanAll(scan_or_end(scan_or_end(scan_or_end(scan_or_end(
             scan_or_end(scan_or_end(scan_or_end(scan_or_end(L)))))))))

tokenize(chars) == ScanAll(LexerNew(chars))

ScanSpacebar ==
    /\ lexer.pc = "scan" /\ ScanKind(lexer) = "Spacebar"
    /\ lexer' = spacebar(lexer)
    /\ UNCHANGED <<parser, sem>>

ScanLinefeed ==
    /\ lexer.pc = "scan" /\ ScanKind(lexer) = "Linefeed"
    /\ lexer' = linefeed(lexer)
    /\ UNCHANGED <<parser, sem>>

ScanDigit ==
    /\ lexer.pc = "scan" /\ ScanKind(lexer) = "Digit"
    /\ lexer' = number(lexer)
    /\ UNCHANGED <<parser, sem>>

ScanAlphabet ==
    /\ lexer.pc = "scan" /\ ScanKind(lexer) = "Alphabet"
    /\ lexer' = scan_identifier(lexer)
    /\ UNCHANGED <<parser, sem>>

ScanLineComment ==
    /\ lexer.pc = "scan" /\ ScanKind(lexer) = "LineComment"
    /\ lexer' = line_comment(lexer)
    /\ UNCHANGED <<parser, sem>>

ScanBlockComment ==
    /\ lexer.pc = "scan" /\ ScanKind(lexer) = "BlockComment"
    /\ lexer' = block_comment(lexer)
    /\ UNCHANGED <<parser, sem>>

ScanDivide ==
    /\ lexer.pc = "scan" /\ ScanKind(lexer) = "Divide"
    /\ lexer' = divide(lexer)
    /\ UNCHANGED <<parser, sem>>

ScanDoubleSign ==
    /\ lexer.pc = "scan" /\ ScanKind(lexer) = "DoubleSign"
    /\ lexer' = double_sign(lexer)
    /\ UNCHANGED <<parser, sem>>

ScanSingleSign ==
    /\ lexer.pc = "scan" /\ ScanKind(lexer) = "SingleSign"
    /\ lexer' = one_sign(lexer)
    /\ UNCHANGED <<parser, sem>>

ScanInvalid ==
    /\ lexer.pc = "scan" /\ ScanKind(lexer) = "Invalid"
    /\ lexer' = error(lexer)
    /\ UNCHANGED <<parser, sem>>

\* scan has returned: tokenize panics or returns the tokens
TokenizeEnd ==
    /\ lexer.pc = "scan"
    /\ ScanKind(lexer) = "Eof"
    /\ lexer' = tokenize_end(lexer)
    /\ UNCHANGED <<parser, sem>>

LexNext ==
    \/ ScanSpacebar
    \/ ScanLinefeed
    \/ ScanDigit
    \/ ScanAlphabet
    \/ ScanLineComment
    \/ ScanBlockComment
    \/ ScanDivide
    \/ ScanDoubleSign
    \/ ScanSingleSign
    \/ ScanInvalid
    \/ TokenizeEnd

SpecLex == LexInit /\ [][LexNext]_vars

(***************************************************************************)
(* Lexer claims.                                                           *)
(***************************************************************************)
OctalChars == {"0", "1", "2", "3", "4", "5", "6", "7"}
HexLetters == {"a", "b", "c", "d", "e", "f", "A", "B", "C", "D", "E", "F"}

AllIn(s, from, set) == \A i \in from..Len(s) : s[i] \in set

\* the base of a well-formed integer literal, 0 when s is none
LiteralBase(s) ==
    IF Len(s) >= 3 /\ s[1] = "0" /\ s[2] \in {"x", "X"}
       /\ AllIn(s, 3, DigitChars \cup HexLetters) THEN 16
    ELSE IF Len(s) >= 2 /\ s[1] = "0" /\ AllIn(s, 2, OctalChars) THEN 8
    ELSE IF Len(s) >= 1 /\ AllIn(s, 1, DigitChars) /\ (s[1] # "0" \/ Len(s) = 1) THEN 10
    ELSE 0

RECURSIVE Power(_, _)
Power(b, n) == IF n = 0 THEN 1 ELSE b * Power(b, n - 1)

\* positional value of the digits s[from..], most significant first
RECURSIVE PositionalValue(_, _, _)
PositionalValue(s, from, base) ==
    IF from > Len(s) THEN 0
    ELSE DigitValue[s[from]] * Power(base, Len(s) - from)
         + PositionalValue(s, from + 1, base)

\* the mathematical value of a well-formed literal
LiteralValue(s) ==
    IF LiteralBase(s) = 16 THEN PositionalValue(s, 3, 16)
    ELSE PositionalValue(s, 1, LiteralBase(s))

LexEnded == lexer.pc \in {"returned", "panicked"}

\* C1: a buffer that is one well-formed integer literal in base 10, 8 or 16
\* is tokenized without error into exactly one IntNumber token whose value is
\* the literal's mathematical value.
C1_IntLiteralValue ==
    (lexer.pc # "scan" /\ LiteralBase(lexer.chars) # 0) =>
        /\ lexer.pc = "returned"
        /\ Len(lexer.tokens) = 1
        /\ lexer.tokens[1].sort = "IntNumber"
        /\ lexer.tokens[1].num = LiteralValue(lexer.chars)

C1_Witness ==
    /\ lexer.pc = "returned"
    /\ lexer.chars = <<"0", "x", "1", "A">>
    /\ Len(lexer.tokens) = 1
    /\ lexer.tokens[1].num = 26

\* concatenation of the source substrings [startpos, endpos) of the tokens
RECURSIVE SpanConcat(_, _)
SpanConcat(chars, toks) ==
    IF toks = <<>> THEN <<>>
    ELSE Slice(chars, toks[1].startpos, toks[1].endpos) \o SpanConcat(chars, Tail(toks))

\* offset just after the first "*/" at or after i, None when there is none
RECURSIVE CommentClose(_, _)
CommentClose(s, i) ==
    IF i + 1 >= Len(s) THEN None
    ELSE IF At(s, i) = "*" /\ At(s, i + 1) = "/" THEN i + 2
    ELSE CommentClose(s, i + 1)

\* the source from offset i on with blanks, tabs, linefeeds and comments removed
RECURSIVE Stripped(_, _)
Stripped(s, i) ==
    IF i >= Len(s) THEN <<>>
    ELSE IF At(s, i) \in {" ", "\t", "\n"} THEN Stripped(s, i + 1)
    ELSE IF At(s, i) = "/" /\ At(s, i + 1) = "/"
    THEN Stripped(s, IF NextLinefeed(s, i) = None THEN Len(s) ELSE NextLinefeed(s, i))
    ELSE IF At(s, i) = "/" /\ At(s, i + 1) = "*"
    THEN Stripped(s, IF CommentClose(s, i + 2) = None THEN Len(s)
                     ELSE CommentClose(s, i + 2))
    ELSE <<At(s, i)>> \o Stripped(s, i + 1)

\* C2: when tokenize succeeds, the token spans concatenated in order are the
\* source with whitespace, linefeeds and comments removed.
C2_RoundTrip ==
    lexer.pc = "returned" =>
        SpanConcat(lexer.chars, lexer.tokens) = Stripped(lexer.chars, 0)

RECURSIVE CountLinefeeds(_)
CountLinefeeds(s) ==
    IF s = <<>> THEN 0
    ELSE (IF s[1] = "\n" THEN 1 ELSE 0) + CountLinefeeds(Tail(s))

OnlyBlank(s) == \A i \in 1..Len(s) : s[i] \in {" ", "\t", "\n"}

\* C3: on a buffer of blanks, tabs and linefeeds only, no token is produced
\* and no error raised; the line number is always 1 plus the number of
\* linefeeds scanned so far, one line start is recorded per line, and when
\* tokenize returns the line number is 1 plus the number of linefeeds.
C3_BlankInput ==
    OnlyBlank(lexer.chars) =>
        /\ lexer.tokens = <<>>
        /\ ~lexer.is_panicked
        /\ lexer.pc \in {"scan", "returned"}
        /\ lexer.current <= Len(lexer.chars)
        /\ lexer.line_no = 1 + CountLinefeeds(Slice(lexer.chars, 0, lexer.current))
        /\ Len(lexer.line_starts) = lexer.line_no
        /\ (lexer.pc = "returned" => lexer.current = Len(lexer.chars))

C3_Witness ==
    /\ lexer.pc = "returned"
    /\ lexer.chars = <<" ", "\n", "\t", "\n">>
    /\ lexer.line_no = 3
    /\ lexer.tokens = <<>>

\* C4: lexical errors are collected, then fatal.  A step that meets an
\* invalid character sets the flag, moves the cursor one character on and
\* stays in the scan loop; the flag is never cleared; tokenize ends only when
\* the cursor is at or past the end of the buffer, and it ends panicking
\* exactly when the flag is set.
C4_CollectedThenFatal ==
    [][ /\ (lexer.is_panicked => lexer'.is_panicked)
        /\ (ScanKind(lexer) = "Invalid" =>
               /\ lexer'.is_panicked
               /\ lexer'.current = lexer.current + 1
               /\ lexer'.pc = "scan"
               /\ lexer'.tokens = lexer.tokens)
        /\ (~lexer.is_panicked /\ lexer'.is_panicked => lexer'.pc = "scan")
        /\ (lexer'.pc \in {"returned", "panicked"} =>
               /\ lexer.current >= Len(lexer.chars)
               /\ (lexer'.pc = "panicked" <=> lexer.is_panicked)
               /\ (lexer'.pc = "panicked" <=> lexer'.is_panicked))
      ]_vars

\* an error in the middle of the buffer, a token scanned after it, and the
\* panic at the end
C4_Witness ==
    /\ lexer.pc = "panicked"
    /\ lexer.chars = <<".", "1", "/", "*">>
    /\ Len(lexer.tokens) = 1
    /\ lexer.is_panicked

\* the offsets of "." in s, from 1
Dots(s) == {i \in 1..Len(s) : s[i] = "."}

\* s is digits "." digits
IsFloatLiteral(s) ==
    /\ Cardinality(Dots(s)) = 1
    /\ \A i \in 1..Len(s) : i \in Dots(s) \/ s[i] \in DigitChars
    /\ 1 \notin Dots(s) /\ Len(s) \notin Dots(s)

IntegerPart(s) == SubSeq(s, 1, (CHOOSE i \in Dots(s) : TRUE) - 1)
FractionPart(s) == SubSeq(s, (CHOOSE i \in Dots(s) : TRUE) + 1, Len(s))

\* C15: a buffer that is a base-10 literal with one "." is tokenized without
\* error into exactly one FloatNumber token that spans the buffer and whose
\* value v is integer part + fraction part / 10^n for n fraction digits
\* (stated as v * 10^n = integer part * 10^n + fraction part); a base-10
\* literal without "." gives an IntNumber token.
C15_FloatLiteral ==
    /\ (lexer.pc # "scan" /\ IsFloatLiteral(lexer.chars)) =>
          /\ lexer.pc = "returned"
          /\ ~lexer.is_panicked
          /\ Len(lexer.tokens) = 1
          /\ lexer.tokens[1].sort = "FloatNumber"
          /\ lexer.tokens[1].startpos = 0
          /\ lexer.tokens[1].endpos = Len(lexer.chars)
          /\ lexer.tokens[1].num * Power(10, Len(FractionPart(lexer.chars)))
               = PositionalValue(IntegerPart(lexer.chars), 1, 10)
                   * Power(10, Len(FractionPart(lexer.chars)))
                 + PositionalValue(FractionPart(lexer.chars), 1, 10)
    /\ (lexer.pc # "scan" /\ LiteralBase(lexer.chars) = 10) =>
          /\ Len(lexer.tokens) = 1
          /\ lexer.tokens[1].sort = "IntNumber"

\* s is one run of letters and digits that begins like a base-8 or base-16
\* literal and holds a character that is no digit of that base
IsMalformedLiteral(s) ==
    /\ Len(s) >= 2
    /\ AllIn(s, 1, DigitChars \cup AlphaChars)
    /\ s[1] = "0"
    /\ IF s[2] \in {"x", "X"}
       THEN ~AllIn(s, 3, DigitChars \cup HexLetters)
       ELSE ~AllIn(s, 2, OctalChars)

\* C16: a buffer that is one malformed base-8 or base-16 literal is
\* tokenized, without a panic, into exactly one WrongFormat token that spans
\* the whole run.
C16_MalformedLiteral ==
    (lexer.pc # "scan" /\ IsMalformedLiteral(lexer.chars)) =>
        /\ lexer.pc = "returned"
        /\ Len(lexer.tokens) = 1
        /\ lexer.tokens[1].sort = "WrongFormat"
        /\ lexer.tokens[1].startpos = 0
        /\ lexer.tokens[1].endpos = Len(lexer.chars)

(***************************************************************************)
(* Syntax tree (src/src/lib.rs, src/src/parser.rs).                        *)
(*                                                                         *)
(* A BasicType is a record [t, dims]; Func(ret) also carries ret.  An      *)
(* Option is a record [some, v].  A Node is a record with kind k, type ty, *)
(* span [s, e) and the fields of its NodeType variant.                     *)
(***************************************************************************)
BasicType(t) == [t |-> t, dims |-> <<>>]
ArrayType(t, dims) == [t |-> t, dims |-> dims]
FuncType(ret) == [t |-> "Func", dims |-> <<>>, ret |-> ret]

Some(v) == [some |-> TRUE, v |-> v]
NoList == [some |-> FALSE, v |-> <<>>]

\* Node::new: type Nil and the span [0, 0)
NumberNode(num) ==
    [k |-> "Number", ty |-> BasicType("Nil"), s |-> 0, e |-> 0, num |-> num]
FloatNumberNode(num) ==
    [k |-> "FloatNumber", ty |-> BasicType("Nil"), s |-> 0, e |-> 0, num |-> num]
NilNode == [k |-> "Nil", ty |-> BasicType("Nil"), s |-> 0, e |-> 0]
\* Node::zero_init
zero_init == NumberNode(0)
NoNode == [some |-> FALSE, v |-> NilNode]

DeclNode(btype, name, dims, inits, scope) ==
    [k |-> "Decl", ty |-> BasicType("Nil"), s |-> 0, e |-> 0, btype |-> btype,
     name |-> name, dims |-> dims, inits |-> inits, scope |-> scope]
DeclStmtNode(decls) ==
    [k |-> "DeclStmt", ty |-> BasicType("Nil"), s |-> 0, e |-> 0, decls |-> decls]
InitListNode(list) ==
    [k |-> "InitList", ty |-> BasicType("Nil"), s |-> 0, e |-> 0, list |-> list]
AssignNode(name, indexes, expr, lhs) ==
    [k |-> "Assign", ty |-> BasicType("Nil"), s |-> 0, e |-> 0, name |-> name,
     indexes |-> indexes, expr |-> expr, lhs |-> lhs]
ExprStmtNode(expr) ==
    [k |-> "ExprStmt", ty |-> BasicType("Nil"), s |-> 0, e |-> 0, expr |-> expr]
AccessNode(name, indexes, decl) ==
    [k |-> "Access", ty |-> BasicType("Nil"), s |-> 0, e |-> 0, name |-> name,
     indexes |-> indexes, decl |-> decl]
\* Node::binary_operation
binary_operation(sort, lhs, rhs) ==
    [k |-> "BinOp", ty |-> BasicType("Nil"), s |-> 0, e |-> 0, op |-> sort,
     lhs |-> lhs, rhs |-> rhs]
FuncNode(ret, name, params, body) ==
    [k |-> "Func", ty |-> BasicType("Nil"), s |-> 0, e |-> 0, ret |-> ret,
     name |-> name, params |-> params, body |-> body]
BlockNode(stmts) ==
    [k |-> "Block", ty |-> BasicType("Nil"), s |-> 0, e |-> 0, stmts |-> stmts]
ReturnNode(expr) ==
    [k |-> "Return", ty |-> BasicType("Nil"), s |-> 0, e |-> 0, expr |-> expr]
CallNode(name, args, decl) ==
    [k |-> "Call", ty |-> BasicType("Nil"), s |-> 0, e |-> 0, name |-> name,
     args |-> args, decl |-> decl]
IfNode(cond, on_true, on_false) ==
    [k |-> "If", ty |-> BasicType("Nil"), s |-> 0, e |-> 0, cond |-> cond,
     on_true |-> on_true, on_false |-> on_false]
WhileNode(cond, body) ==
    [k |-> "While", ty |-> BasicType("Nil"), s |-> 0, e |-> 0, cond |-> cond,
     body |-> body]
BreakNode == [k |-> "Break", ty |-> BasicType("Nil"), s |-> 0, e |-> 0]
ContinueNode == [k |-> "Continue", ty |-> BasicType("Nil"), s |-> 0, e |-> 0]

\* Node::bound
bound(n, start, end) == [n EXCEPT !.s = start, !.e = end]

(***************************************************************************)
(* Parser.  A parser state P is [tokens, current, pc, diag, ast]: pc is    *)
(* "run" until a Rust panic (an index out of range, expect on None,        *)
(* unreachable) makes it "panic"; diag lists the reports of                *)
(* Token::wrong_token, each                                                *)
(* with the cursor at the time of the report.  Every parsing function      *)
(* returns the state after it with its result; on a panicked state it does *)
(* nothing.                                                                *)
(***************************************************************************)
ParserNew(tokens) ==
    [tokens |-> tokens, current |-> 0, pc |-> "run", diag |-> <<>>, ast |-> <<>>]

InRange(P) == P.current >= 0 /\ P.current < Len(P.tokens)

\* Parser::get_current_token, defined when InRange(P)
get_current_token(P) == P.tokens[P.current + 1]

\* Parser::get_startpos, defined when InRange(P)
get_startpos(P) == P.tokens[P.current + 1].startpos

\* Parser::get_endpos is tokens[current - 1].endpos: it needs current >= 1
EndposOk(P) == P.current >= 1 /\ P.current <= Len(P.tokens)
get_endpos(P) == P.tokens[P.current].endpos

Panic(P) == [P EXCEPT !.pc = "panic"]
Advance(P) == [P EXCEPT !.current = P.current + 1]

\* Token::wrong_token: the report is printed and the call returns
wrong_token(P, from, msg) ==
    [P EXCEPT !.diag = Append(P.diag, [from |-> from, msg |-> msg, at |-> P.current])]

\* Parser::type_judge
type_judge(P, sort) ==
    IF P.pc # "run" THEN [p |-> P, ok |-> FALSE]
    ELSE IF ~InRange(P) THEN [p |-> Panic(P), ok |-> FALSE]
    ELSE IF get_current_token(P).sort # sort THEN [p |-> P, ok |-> FALSE]
    ELSE [p |-> Advance(P), ok |-> TRUE]

\* Parser::type_check: on a mismatch the report is made and the cursor moves on
\* all the same
type_check(P, sort) ==
    IF P.pc # "run" THEN P
    ELSE IF ~InRange(P) THEN Panic(P)
    ELSE IF get_current_token(P).sort # sort
    THEN Advance(wrong_token(P, "type_check", sort))
    ELSE Advance(P)

\* result of a parsing function: the state after it and the node (or list)
Ret(p, n) == [p |-> p, n |-> n]

\* a chain "if type_judge(a) .. else if type_judge(b) ..": the first call
\* panics at the end of the tokens, otherwise at most one sort matches
judge_any(P, sorts) ==
    IF P.pc # "run" THEN [p |-> P, ok |-> FALSE, sort |-> ""]
    ELSE IF ~InRange(P) THEN [p |-> Panic(P), ok |-> FALSE, sort |-> ""]
    ELSE IF get_current_token(P).sort \in sorts
    THEN [p |-> Advance(P), ok |-> TRUE, sort |-> get_current_token(P).sort]
    ELSE [p |-> P, ok |-> FALSE, sort |-> ""]

RECURSIVE self(_, _, _)
RECURSIVE seek_array_loop(_, _, _)
RECURSIVE skip_to_right_bracket(_)
RECURSIVE primary_exp(_, _)
RECURSIVE call_args(_, _, _)
RECURSIVE unary_loop(_, _, _)
RECURSIVE binary_loop(_, _, _, _, _)
RECURSIVE level_exp(_, _, _)

\* the operators folded at each level of the precedence ladder
LevelOps(level) ==
    IF level = "mul" THEN {"Multi", "Divide", "Mods"}
    ELSE IF level = "add" THEN {"Plus", "Minus"}
    ELSE IF level = "rel" THEN {"Lesserthan", "Greaterthan", "LessEqual", "GreatEqual"}
    ELSE IF level = "eq" THEN {"Equal", "NotEqual"}
    ELSE IF level = "l_and" THEN {"And"}
    ELSE {"Or"}

\* the level whose expressions are the operands of a level
LevelBelow(level) ==
    IF level = "add" THEN "mul"
    ELSE IF level = "rel" THEN "add"
    ELSE IF level = "eq" THEN "rel"
    ELSE IF level = "l_and" THEN "eq"
    ELSE IF level = "l_or" THEN "l_and"
    ELSE "unary"

\* Parser::unary_exp
unary_exp(P, cond) ==
    CASE P.pc # "run" -> Ret(P, NilNode)
      [] P.pc = "run" /\ ~InRange(P) -> Ret(Panic(P), NilNode)
      [] OTHER -> unary_loop(P, cond, get_startpos(P))

\* Parser::mul_exp
mul_exp(P, cond) == level_exp(P, "mul", cond)
\* Parser::add_exp
add_exp(P, cond) == level_exp(P, "add", cond)
\* Parser::const_exp
const_exp(P, cond) == self(P, "add_exp", cond)
\* Parser::rel_exp
rel_exp(P) == level_exp(P, "rel", TRUE)
\* Parser::eq_exp
eq_exp(P) == level_exp(P, "eq", TRUE)
\* Parser::l_and_exp
l_and_exp(P) == level_exp(P, "l_and", TRUE)
\* Parser::l_or_exp
l_or_exp(P) == level_exp(P, "l_or", TRUE)

\* the inner loop of the open-bracket arm of seek_array
skip_to_right_bracket(P) ==
    LET j == type_judge(P, "RightBracket")
    IN IF j.ok \/ j.p.pc # "run" THEN j.p
       ELSE skip_to_right_bracket(Advance(P))

\* the loop of Parser::seek_array
seek_array_loop(P, allow_empty, v) ==
    LET j == type_judge(P, "LeftBracket")
    IN CASE j.p.pc # "run" -> Ret(j.p, NoList)
         [] j.p.pc = "run" /\ ~j.ok -> Ret(P, IF v = <<>> THEN NoList ELSE Some(v))
         [] j.p.pc = "run" /\ j.ok /\ ~InRange(j.p) -> Ret(Panic(j.p), NoList)
         [] OTHER ->
              IF allow_empty
              THEN LET startpos == get_startpos(j.p)
                       P2 == skip_to_right_bracket(j.p)
                   IN IF P2.pc # "run" THEN Ret(P2, NoList)
                      ELSE seek_array_loop(P2, FALSE,
                               Append(v, bound(NilNode, startpos, get_endpos(P2))))
              ELSE LET len == self(j.p, "const_exp", FALSE)
                   IN IF len.p.pc # "run" THEN Ret(len.p, NoList)
                      ELSE seek_array_loop(type_check(len.p, "RightBracket"), FALSE,
                                           Append(v, len.n))

\* Parser::seek_array
seek_array(P, is_param) == seek_array_loop(P, is_param, <<>>)

\* "while type_judge(Comma) { args.push(const_exp) }" of a call
call_args(P, cond, args) ==
    LET j == type_judge(P, "Comma")
    IN IF ~j.ok THEN Ret(j.p, args)
       ELSE LET a == self(j.p, "const_exp", cond)
            IN call_args(a.p, cond, Append(args, a.n))

\* Parser::primary_exp
primary_exp(P, cond) ==
    CASE P.pc # "run" -> Ret(P, NilNode)
      [] P.pc = "run" /\ ~InRange(P) -> Ret(Panic(P), NilNode)
      [] OTHER ->
        LET t == get_current_token(P)
            P1 == Advance(P)
            res ==
              CASE t.sort = "LeftParen" ->
                     LET x == self(P1, "const_exp", cond)
                     IN IF x.p.pc # "run" THEN [p |-> x.p, some |-> FALSE, n |-> x.n]
                        ELSE LET j == type_judge(x.p, "RightParen")
                             IN [p |-> j.p, some |-> j.ok, n |-> x.n]
                [] t.sort = "IntNumber" ->
                     [p |-> P1, some |-> TRUE, n |-> NumberNode(t.num)]
                [] t.sort = "FloatNumber" ->
                     [p |-> P1, some |-> TRUE, n |-> FloatNumberNode(t.num)]
                [] t.sort = "Identifier" ->
                     LET j == type_judge(P1, "LeftParen")
                     IN IF j.ok
                        THEN LET j2 == type_judge(j.p, "RightParen")
                             IN IF j2.ok \/ j2.p.pc # "run"
                                THEN [p |-> j2.p, some |-> TRUE,
                                      n |-> CallNode(t.name, <<>>, zero_init)]
                                ELSE LET a == self(j2.p, "const_exp", cond)
                                         rest == call_args(a.p, cond, <<a.n>>)
                                         j3 == type_judge(rest.p, "RightParen")
                                     IN [p |-> j3.p, some |-> j3.ok,
                                         n |-> CallNode(t.name, rest.n, zero_init)]
                        ELSE LET sa == self(j.p, "seek_array", FALSE)
                             IN [p |-> sa.p, some |-> TRUE,
                                 n |-> AccessNode(t.name, sa.n, zero_init)]
                [] OTHER ->
                     [p |-> wrong_token(P1, "primary_exp", "Expression cannot resolved"),
                      some |-> FALSE, n |-> NilNode]
        IN IF res.p.pc # "run" THEN Ret(res.p, NilNode)
           ELSE Ret(res.p, bound(IF res.some THEN res.n ELSE zero_init,
                                 t.startpos, get_endpos(res.p)))

\* the loop of Parser::unary_exp
unary_loop(P, cond, startpos) ==
    CASE P.pc # "run" -> Ret(P, NilNode)
      [] P.pc = "run" /\ ~InRange(P) -> Ret(Panic(P), NilNode)
      [] OTHER ->
           CASE get_current_token(P).sort = "Plus" ->
                  unary_loop(Advance(P), cond, startpos)
             [] get_current_token(P).sort = "Minus" ->
                  LET x == self(Advance(P), "primary_exp", cond)
                  IN IF x.p.pc # "run" THEN Ret(x.p, NilNode)
                     ELSE Ret(x.p, bound(binary_operation("Minus", zero_init, x.n),
                                         startpos, get_endpos(x.p)))
             [] cond /\ get_current_token(P).sort = "Not" ->
                  LET x == self(Advance(P), "primary_exp", cond)
                  IN IF x.p.pc # "run" THEN Ret(x.p, NilNode)
                     ELSE Ret(x.p, bound(binary_operation("Equal", x.n, zero_init),
                                         startpos, get_endpos(x.p)))
             [] OTHER -> self(P, "primary_exp", cond)

\* the loop shared by mul_exp, add_exp, rel_exp, eq_exp, l_and_exp, l_or_exp:
\* fold the left-hand side with every operator of the level
binary_loop(P, level, cond, startpos, lhs) ==
    LET j == judge_any(P, LevelOps(level))
    IN IF ~j.ok THEN Ret(j.p, lhs)
       ELSE LET r == level_exp(j.p, LevelBelow(level), cond)
            IN IF r.p.pc # "run" THEN Ret(r.p, NilNode)
               ELSE binary_loop(r.p, level, cond, startpos,
                        bound(binary_operation(j.sort, lhs, r.n),
                              startpos, get_endpos(r.p)))

\* one level of the ladder; "unary" is the level below "mul"
level_exp(P, level, cond) ==
    CASE level = "unary" -> self(P, "unary_exp", cond)
      [] level # "unary" /\ P.pc # "run" -> Ret(P, NilNode)
      [] level # "unary" /\ P.pc = "run" /\ ~InRange(P) -> Ret(Panic(P), NilNode)
      [] OTHER ->
           LET first == level_exp(P, LevelBelow(level), cond)
           IN IF first.p.pc # "run" THEN first
              ELSE binary_loop(first.p, level, cond, get_startpos(P), first.n)

\* the cursor put just after the identifier, at pos
reset_cursor_after(P, pos) == [P EXCEPT !.current = pos]

\* stmt, Identifier, no "=": "self.current = pos - 1", the cursor is put on
\* the identifier (pos is the cursor just after it)
reset_cursor(P, pos) == [P EXCEPT !.current = pos - 1]

RECURSIVE init_list(_)
RECURSIVE init_list_loop(_, _, _)
RECURSIVE decl_loop(_, _, _, _, _)
RECURSIVE stmt(_)
RECURSIVE block(_)
RECURSIVE block_loop(_, _)
RECURSIVE param_loop(_, _)

\* Parser::get_basic_type; the result n is the BasicType
get_basic_type(P) ==
    IF P.pc # "run" THEN Ret(P, BasicType("Nil"))
    ELSE IF ~InRange(P) THEN Ret(Panic(P), BasicType("Nil"))
    ELSE LET t == get_current_token(P)
             P1 == Advance(P)
         IN IF t.sort = "Void" THEN Ret(P1, BasicType("Void"))
            ELSE IF t.sort = "Int" THEN Ret(P1, BasicType("Int"))
            ELSE IF t.sort = "Float" THEN Ret(P1, BasicType("Float"))
            ELSE IF t.sort = "Const" THEN Ret(type_check(P1, "Int"), BasicType("Const"))
            ELSE Ret(Panic(wrong_token(P1, "get_basic_type", "invalid type declare")),
                     BasicType("Nil"))

\* Parser::get_identifier; the result n is the name, empty after a report
get_identifier(P) ==
    IF P.pc # "run" THEN Ret(P, <<>>)
    ELSE IF ~InRange(P) THEN Ret(Panic(P), <<>>)
    ELSE IF get_current_token(P).sort = "Identifier"
    THEN Ret(Advance(P), get_current_token(P).name)
    ELSE Ret(wrong_token(P, "get_identifier", "expect function or value name"), <<>>)

\* the loop of Parser::init_list
init_list_loop(P, first, init) ==
    LET j == type_judge(P, "RightBrace")
    IN IF j.ok \/ j.p.pc # "run" THEN Ret(j.p, init)
       ELSE LET P1 == IF first THEN P ELSE type_check(P, "Comma")
            IN IF P1.pc # "run" THEN Ret(P1, init)
               ELSE IF ~InRange(P1) THEN Ret(Panic(P1), init)
               ELSE IF get_current_token(P1).sort = "LeftBrace"
               THEN LET l == self(P1, "init_list", FALSE)
                    IN IF l.p.pc # "run" THEN Ret(l.p, init)
                       ELSE init_list_loop(l.p, FALSE,
                                Append(init, bound(InitListNode(l.n), get_startpos(P1),
                                                   get_endpos(l.p))))
               ELSE IF get_current_token(P1).sort \in {"Identifier", "IntNumber", "LeftParen"}
               THEN LET x == self(P1, "add_exp", FALSE)
                    IN init_list_loop(x.p, FALSE, Append(init, x.n))
               ELSE init_list_loop(wrong_token(P1, "init_list", "expession or initlist"),
                                   FALSE, init)

\* Parser::init_list; the result n is the list of initializers
init_list(P) == init_list_loop(type_check(P, "LeftBrace"), TRUE, <<>>)

\* the loop of Parser::decl_stmt
decl_loop(P, basic_type, scope, first, decl_list) ==
    LET j == type_judge(P, "Semicolon")
    IN IF j.ok \/ j.p.pc # "run" THEN Ret(j.p, decl_list)
       ELSE
         LET P1 == IF first THEN P ELSE type_check(P, "Comma")
         IN IF P1.pc # "run" THEN Ret(P1, decl_list)
            ELSE IF ~InRange(P1) THEN Ret(Panic(P1), decl_list)
            ELSE
              LET startpos == get_startpos(P1)
                  name == get_identifier(P1)
                  dims == self(name.p, "seek_array", FALSE)
                  ja == type_judge(dims.p, "Assign")
                  init ==
                    IF ja.ok
                    THEN IF ~dims.n.some
                         THEN LET x == self(ja.p, "add_exp", FALSE) IN Ret(x.p, Some(<<x.n>>))
                         ELSE LET l == self(ja.p, "init_list", FALSE) IN Ret(l.p, Some(l.n))
                    ELSE IF ja.p.pc = "run" /\ basic_type = BasicType("Const")
                    THEN Ret(Panic(wrong_token(ja.p, "decl_stmt",
                                               "assign in const declaration")), NoList)
                    ELSE Ret(ja.p, NoList)
              IN IF init.p.pc # "run" THEN Ret(init.p, decl_list)
                 ELSE IF ~EndposOk(init.p) THEN Ret(Panic(init.p), decl_list)
                 ELSE decl_loop(init.p, basic_type, scope, FALSE,
                          Append(decl_list,
                                 bound(DeclNode(basic_type, name.n, dims.n, init.n, scope),
                                       startpos, get_endpos(init.p))))

\* Parser::decl_stmt
decl_stmt(P, scope) ==
    IF P.pc # "run" THEN Ret(P, NilNode)
    ELSE IF ~InRange(P) THEN Ret(Panic(P), NilNode)
    ELSE
      LET t == get_current_token(P)
          P1 == Advance(P)
          ty == IF t.sort = "Const" THEN Ret(type_check(P1, "Int"), BasicType("Const"))
                ELSE IF t.sort = "Int" THEN Ret(P1, BasicType("Int"))
                ELSE IF t.sort = "Float" THEN Ret(P1, BasicType("Float"))
                ELSE Ret(Panic(wrong_token(P1, "decl_stmt", "type define")),
                         BasicType("Nil"))
          l == decl_loop(ty.p, ty.n, scope, TRUE, <<>>)
      IN IF l.p.pc # "run" THEN Ret(l.p, NilNode)
         ELSE Ret(l.p, bound(DeclStmtNode(l.n), get_startpos(P), get_endpos(l.p)))

\* the statement after the keyword of an if or a while: "(" cond ")" stmt
CondAndBody(P) ==
    LET cond == self(type_check(P, "LeftParen"), "l_or_exp", TRUE)
        body == self(type_check(cond.p, "RightParen"), "stmt", FALSE)
    IN IF cond.p.pc # "run" THEN [p |-> cond.p, cond |-> cond.n, body |-> NilNode]
       ELSE [p |-> body.p, cond |-> cond.n, body |-> body.n]

\* Parser::stmt
stmt(P) ==
    CASE P.pc # "run" -> Ret(P, NilNode)
      [] P.pc = "run" /\ ~InRange(P) -> Ret(Panic(P), NilNode)
      [] OTHER ->
        LET startpos == get_startpos(P)
            t == get_current_token(P)
            P1 == Advance(P)
            Done(p, n) == IF p.pc # "run" THEN Ret(p, NilNode)
                          ELSE Ret(p, bound(n, startpos, get_endpos(p)))
        IN CASE t.sort = "Identifier" ->
                  LET index == self(P1, "seek_array", FALSE)
                      j == type_judge(index.p, "Assign")
                  IN IF j.ok
                     THEN LET x == self(j.p, "add_exp", FALSE)
                          IN Done(type_check(x.p, "Semicolon"),
                                  AssignNode(t.name, index.n, x.n, zero_init))
                     ELSE IF j.p.pc # "run" THEN Ret(j.p, NilNode)
                     ELSE LET x == self(reset_cursor(j.p, P1.current), "add_exp", FALSE)
                          IN Done(type_check(x.p, "Semicolon"), ExprStmtNode(x.n))
             [] t.sort \in {"Int", "Const", "Float"} -> self(P, "decl_stmt", "Local")
             [] t.sort = "LeftBrace" -> self(P, "block", FALSE)
             [] t.sort = "If" ->
                  LET cb == CondAndBody(P1)
                      j == type_judge(cb.p, "Else")
                      f == IF j.ok THEN self(j.p, "stmt", FALSE) ELSE Ret(j.p, NilNode)
                  IN Done(f.p, IfNode(cb.cond, cb.body,
                                      IF j.ok THEN Some(f.n) ELSE NoNode))
             [] t.sort = "While" ->
                  LET cb == CondAndBody(P1)
                  IN Done(cb.p, WhileNode(cb.cond, cb.body))
             [] t.sort = "Break" -> Done(type_check(P1, "Semicolon"), BreakNode)
             [] t.sort = "Continue" -> Done(type_check(P1, "Semicolon"), ContinueNode)
             [] t.sort = "Return" ->
                  LET j == type_judge(P1, "Semicolon")
                  IN IF j.ok \/ j.p.pc # "run" THEN Done(j.p, ReturnNode(NoNode))
                     ELSE LET x == self(P1, "add_exp", FALSE)
                          IN Done(type_check(x.p, "Semicolon"), ReturnNode(Some(x.n)))
             [] OTHER ->
                  LET x == self(P1, "add_exp", FALSE)
                  IN Done(type_check(x.p, "Semicolon"), ExprStmtNode(x.n))

\* the loop of Parser::block
block_loop(P, stmts) ==
    LET j == type_judge(P, "RightBrace")
    IN IF j.ok \/ j.p.pc # "run" THEN Ret(j.p, stmts)
       ELSE LET st == self(P, "stmt", FALSE)
            IN IF st.p.pc # "run" THEN Ret(st.p, Append(stmts, st.n))
               ELSE block_loop(st.p, Append(stmts, st.n))

\* Parser::block
block(P) ==
    CASE P.pc # "run" -> Ret(P, NilNode)
      [] P.pc = "run" /\ ~InRange(P) -> Ret(Panic(P), NilNode)
      [] OTHER ->
           LET l == block_loop(type_check(P, "LeftBrace"), <<>>)
           IN IF l.p.pc # "run" THEN Ret(l.p, NilNode)
              ELSE Ret(l.p, bound(BlockNode(l.n), get_startpos(P), get_endpos(l.p)))

\* Parser::param
param(P) ==
    IF P.pc # "run" THEN Ret(P, NilNode)
    ELSE IF ~InRange(P) THEN Ret(Panic(P), NilNode)
    ELSE LET name == get_identifier(type_check(P, "Int"))
             dim == self(name.p, "seek_array", TRUE)
             basic_type == IF ~dim.n.some THEN BasicType("Int")
                           ELSE ArrayType("IntArray", <<0>>)
         IN IF dim.p.pc # "run" THEN Ret(dim.p, NilNode)
            ELSE IF ~EndposOk(dim.p) THEN Ret(Panic(dim.p), NilNode)
            ELSE Ret(dim.p, bound(DeclNode(basic_type, name.n, dim.n, NoList, "Params"),
                                  get_startpos(P), get_endpos(dim.p)))

\* "while type_judge(Comma) { params.push(param()) }" of comp_unit
param_loop(P, params) ==
    LET j == type_judge(P, "Comma")
    IN IF ~j.ok THEN Ret(j.p, params)
       ELSE LET a == self(j.p, "param", FALSE)
            IN param_loop(a.p, Append(params, a.n))

\* Parser::comp_unit
comp_unit(P) ==
    CASE P.pc # "run" -> Ret(P, NilNode)
      [] P.pc = "run" /\ ~InRange(P) -> Ret(Panic(P), NilNode)
      [] OTHER ->
        LET basic_type == get_basic_type(P)
            name == get_identifier(basic_type.p)
            j == type_judge(name.p, "LeftParen")
        IN CASE j.p.pc # "run" -> Ret(j.p, NilNode)
             [] j.p.pc = "run" /\ j.ok ->
                  LET j2 == type_judge(j.p, "RightParen")
                      params ==
                        IF j2.ok \/ j2.p.pc # "run" THEN Ret(j2.p, <<>>)
                        ELSE LET a == self(j2.p, "param", FALSE)
                                 rest == param_loop(a.p, <<a.n>>)
                             IN Ret(type_check(rest.p, "RightParen"), rest.n)
                      body == self(params.p, "block", FALSE)
                  IN IF body.p.pc # "run" THEN Ret(body.p, NilNode)
                     ELSE Ret(body.p,
                              bound(FuncNode(basic_type.n, name.n, params.n, body.n),
                                    get_startpos(P), get_endpos(body.p)))
             [] OTHER -> self([j.p EXCEPT !.current = P.current], "decl_stmt", "Global")

\* a method call self.method(..) of impl Parser; arg is the argument of the
\* method when it has one
self(P, method, arg) ==
    CASE method = "comp_unit" -> comp_unit(P)
      [] method = "decl_stmt" -> decl_stmt(P, arg)
      [] method = "init_list" -> init_list(P)
      [] method = "seek_array" -> seek_array(P, arg)
      [] method = "param" -> param(P)
      [] method = "block" -> block(P)
      [] method = "stmt" -> stmt(P)
      [] method = "l_or_exp" -> l_or_exp(P)
      [] method = "const_exp" -> const_exp(P, arg)
      [] method = "add_exp" -> add_exp(P, arg)
      [] method = "unary_exp" -> unary_exp(P, arg)
      [] method = "primary_exp" -> primary_exp(P, arg)

\* one iteration of the loop of parse: a top-level construct is parsed and
\* pushed
parse_step(P) ==
    LET r == self(P, "comp_unit", FALSE)
    IN IF r.p.pc # "run" THEN r.p
       ELSE [r.p EXCEPT !.ast = Append(r.p.ast, r.n)]

\* parse run to its end
RECURSIVE ParseAll(_)
ParseAll(P) ==
    IF P.pc # "run" THEN P
    ELSE IF P.current = Len(P.tokens) THEN [P EXCEPT !.pc = "returned"]
    ELSE ParseAll(parse_step(P))

parse(tokens) == ParseAll(ParserNew(tokens))

(***************************************************************************)
(* Source texts.  A program is written as a sequence of lexemes; a lexeme  *)
(* of one character is that character, a longer one is spelled by Spell.   *)
(* The source text is the lexemes joined by single blanks.                 *)
(***************************************************************************)
Words ==
    [int |-> <<"i", "n", "t">>,
     const |-> <<"c", "o", "n", "s", "t">>,
     void |-> <<"v", "o", "i", "d">>,
     if |-> <<"i", "f">>,
     else |-> <<"e", "l", "s", "e">>,
     while |-> <<"w", "h", "i", "l", "e">>,
     break |-> <<"b", "r", "e", "a", "k">>,
     continue |-> <<"c", "o", "n", "t", "i", "n", "u", "e">>,
     return |-> <<"r", "e", "t", "u", "r", "n">>,
     main |-> <<"m", "a", "i", "n">>,
     eq |-> <<"=", "=">>,
     ne |-> <<"!", "=">>,
     and |-> <<"&", "&">>,
     or |-> <<"|", "|">>,
     le |-> <<"<", "=">>,
     ge |-> <<">", "=">>,
     maxint |-> <<"2", "1", "4", "7", "4", "8", "3", "6", "4", "7">>]

Spell(w) == IF w \in DOMAIN Words THEN Words[w] ELSE <<w>>

RECURSIVE Source(_)
Source(prog) ==
    IF prog = <<>> THEN <<>>
    ELSE IF Len(prog) = 1 THEN Spell(prog[1])
    ELSE Spell(prog[1]) \o <<" ">> \o Source(Tail(prog))

\* a program with lexeme i replaced, and with lexeme i left out
Replace(prog, i, w) == [prog EXCEPT ![i] = w]
Delete(prog, i) == SubSeq(prog, 1, i - 1) \o SubSeq(prog, i + 1, Len(prog))

(***************************************************************************)
(* The parser as a state machine: parse calls comp_unit until the cursor   *)
(* is at the end of the tokens.  The inputs are three well-formed programs *)
(* and every program that differs from one of them in one lexeme.          *)
(***************************************************************************)
\* int a[2][3] = {{1,2,3},{4,5,6}};
ProgArray ==
    <<"int", "a", "[", "2", "]", "[", "3", "]", "=", "{", "{", "1", ",", "2", ",", "3",
      "}", ",", "{", "4", ",", "5", ",", "6", "}", "}", ";">>

\* const int x = 5; int f(int y, int z[]) { x = 6; return y + 1; }
ProgFunc ==
    <<"const", "int", "x", "=", "5", ";", "int", "f", "(", "int", "y", ",", "int", "z",
      "[", "]", ")", "{", "x", "=", "6", ";", "return", "y", "+", "1", ";", "}">>

\* int main() { while (0) { } break; if (!a) f(2,3); else a[1] = -b * 2; }
ProgControl ==
    <<"int", "main", "(", ")", "{", "while", "(", "0", ")", "{", "}", "break", ";",
      "if", "(", "!", "a", ")", "f", "(", "2", ",", "3", ")", ";", "else", "a", "[",
      "1", "]", "=", "-", "b", "*", "2", ";", "}">>

ParseBase == {ProgArray, ProgFunc, ProgControl}

\* the lexemes put in the place of one lexeme of a program
MutLexemes == {";", ",", ")", "]", "}", "(", "=", "1", "a", "int"}

ParsePrograms ==
    ParseBase
    \cup {Replace(prog, i, w) : <<prog, i, w>> \in
             {<<q, j, x>> \in ParseBase \X (1..37) \X MutLexemes : j <= Len(q)}}
    \cup {Delete(prog, i) : <<prog, i>> \in
             {<<q, j>> \in ParseBase \X (1..37) : j <= Len(q)}}

\* the operators of the binary levels
BinaryOps ==
    {<<"or">>, <<"and">>, <<"eq">>, <<"ne">>, <<"<">>, <<">">>, <<"le">>, <<"ge">>,
     <<"+">>, <<"-">>, <<"*">>, <<"/">>, <<"%">>}

\* a OP b OP 2 without parentheses, with either operation in parentheses,
\* and with a "(" that no ")" closes
ExprForms ==
    {<<"a">> \o o[1] \o <<"b">> \o o[2] \o <<"2">> : o \in BinaryOps \X BinaryOps}
    \cup {<<"(", "a">> \o o[1] \o <<"b", ")">> \o o[2] \o <<"2">> :
             o \in BinaryOps \X BinaryOps}
    \cup {<<"a">> \o o[1] \o <<"(", "b">> \o o[2] \o <<"2", ")">> :
             o \in BinaryOps \X BinaryOps}
    \cup {<<"(", "a">> \o o[1] \o <<"b">> \o o[2] \o <<"2">> : o \in BinaryOps \X BinaryOps}
    \cup {<<"a">> \o o[1] \o <<"(", "b">> \o o[2] \o <<"2">> : o \in BinaryOps \X BinaryOps}

\* int main() { body }
InMain(body) == <<"int", "main", "(", ")", "{">> \o body \o <<"}">>

\* int main() { while ( e ) { } }
InWhile(e) == InMain(<<"while", "(">> \o e \o <<")", "{", "}">>)

ExprPrograms == {InWhile(e) : e \in ExprForms}

\* a with up to two prefix operators
PrefixOps == {<<"+">>, <<"-">>, <<"!">>}

UnaryForms ==
    {<<"a">>} \cup {o \o <<"a">> : o \in PrefixOps}
    \cup {o[1] \o o[2] \o <<"a">> : o \in PrefixOps \X PrefixOps}

\* in a condition, and in the right-hand side of an assignment
UnaryPrograms ==
    {InWhile(u) : u \in UnaryForms}
    \cup {InMain(<<"x", "=">> \o u \o <<";">>) : u \in UnaryForms}

\* statements that begin with an identifier: assignments, and expressions
IdentAssigns ==
    {<<"a", "=", "1", ";">>,
     <<"a", "[", "1", "]", "=", "2", ";">>,
     <<"a", "[", "0", "]", "[", "1", "]", "=", "b", "+", "1", ";">>,
     <<"a", "=", "f", "(", "2", ")", ";">>}

IdentExprs ==
    {<<"f", "(", ")", ";">>,
     <<"f", "(", "2", ",", "b", ")", ";">>,
     <<"a", ";">>,
     <<"a", "[", "1", "]", ";">>,
     <<"a", "+", "1", ";">>,
     <<"a", "[", "1", "]", "*", "2", ";">>,
     <<"f", "(", "2", ")", "-", "a", ";">>,
     <<"a", "[", "b", "]", "[", "0", "]", "+", "f", "(", "1", ")", ";">>}

IdentStmts == IdentAssigns \cup IdentExprs

\* one such statement, or two, as the body of main
StmtPrograms ==
    {InMain(st) : st \in IdentStmts}
    \cup {InMain(st[1] \o st[2]) : st \in IdentStmts \X IdentStmts}

ParseInputs == ParsePrograms \cup ExprPrograms \cup UnaryPrograms \cup StmtPrograms

\* main: the tokens of a source that tokenize returned are handed to parse
ParseInit ==
    /\ \E prog \in ParseInputs :
          /\ lexer = tokenize(Source(prog))
          /\ lexer.pc = "returned"
          /\ parser = ParserNew(lexer.tokens)
    /\ sem = SemIdle

\* an iteration of the loop of parse
CompUnit ==
    /\ parser.pc = "run"
    /\ parser.current # Len(parser.tokens)
    /\ parser' = parse_step(parser)
    /\ UNCHANGED <<lexer, sem>>

\* the loop of parse ends and the nodes are returned
ParseReturn ==
    /\ parser.pc = "run"
    /\ parser.current = Len(parser.tokens)
    /\ parser' = [parser EXCEPT !.pc = "returned"]
    /\ UNCHANGED <<lexer, sem>>

ParseNext ==
    \/ CompUnit
    \/ ParseReturn

SpecParse == ParseInit /\ [][ParseNext]_vars

(***************************************************************************)
(* Parser claims.                                                          *)
(***************************************************************************)
\* C5: a mismatch found by type_check is fatal where it is found: once
\* type_check has reported one, the parse is halted with the cursor still at
\* the reported token, and parse returns no tree.
C5_SyntaxErrorFatal ==
    \A i \in 1..Len(parser.diag) :
        parser.diag[i].from = "type_check" =>
            /\ parser.pc = "panic"
            /\ parser.current = parser.diag[i].at

(***************************************************************************)
(* Expressions: a reference for the trees of the condition of a while,     *)
(* computed from the tokens by splitting at the operator that binds least. *)
(***************************************************************************)
Precedence(sort) ==
    IF sort = "Or" THEN 1
    ELSE IF sort = "And" THEN 2
    ELSE IF sort \in {"Equal", "NotEqual"} THEN 3
    ELSE IF sort \in {"Lesserthan", "Greaterthan", "LessEqual", "GreatEqual"} THEN 4
    ELSE IF sort \in {"Plus", "Minus"} THEN 5
    ELSE IF sort \in {"Multi", "Divide", "Mods"} THEN 6
    ELSE 0

\* the count of "(" less the count of ")" before token i
ParenDepth(toks, i) ==
    Cardinality({j \in 1..(i - 1) : toks[j].sort = "LeftParen"})
    - Cardinality({j \in 1..(i - 1) : toks[j].sort = "RightParen"})

\* token i is a binary operator: it stands after an operand
IsBinaryAt(toks, i) ==
    /\ Precedence(toks[i].sort) > 0
    /\ i > 1
    /\ toks[i - 1].sort \in {"Identifier", "IntNumber", "RightParen", "RightBracket"}

\* the binary operators outside every parenthesis
OpenOps(toks) ==
    {i \in 1..Len(toks) : IsBinaryAt(toks, i) /\ ParenDepth(toks, i) = 0}

\* the operator to split at: of those that bind least, the last
SplitAt(toks) ==
    CHOOSE i \in OpenOps(toks) :
       \A j \in OpenOps(toks) :
          \/ Precedence(toks[j].sort) > Precedence(toks[i].sort)
          \/ Precedence(toks[j].sort) = Precedence(toks[i].sort) /\ j <= i

\* trees without spans
RefBinOp(op, lhs, rhs) == [k |-> "BinOp", op |-> op, lhs |-> lhs, rhs |-> rhs]
RefAccess(name) == [k |-> "Access", name |-> name, indexes |-> 0]
RefNumber(num) == [k |-> "Number", num |-> num]
RefNone == [some |-> FALSE, v |-> RefNumber(0)]

\* the rewriting of a prefix operator applied to the tree e
RefPrefix(sort, e, cond) ==
    IF ~e.some THEN RefNone
    ELSE IF sort = "Plus" THEN e
    ELSE IF sort = "Minus" THEN Some(RefBinOp("Minus", RefNumber(0), e.v))
    ELSE IF cond THEN Some(RefBinOp("Equal", e.v, RefNumber(0)))
    ELSE RefNone

RECURSIVE RefExp(_, _, _)
\* the tree of the expression spelled by toks, if it is one; in parentheses
\* an expression is of the additive level or above, and "!" is an operator
\* in a condition only
RefExp(toks, in_paren, cond) ==
    IF toks = <<>> THEN RefNone
    ELSE IF OpenOps(toks) # {}
    THEN LET i == SplitAt(toks)
             lhs == RefExp(SubSeq(toks, 1, i - 1), in_paren, cond)
             rhs == RefExp(SubSeq(toks, i + 1, Len(toks)), in_paren, cond)
         IN IF (in_paren /\ Precedence(toks[i].sort) < 5) \/ ~lhs.some \/ ~rhs.some
            THEN RefNone
            ELSE Some(RefBinOp(toks[i].sort, lhs.v, rhs.v))
    ELSE IF toks[1].sort \in {"Plus", "Minus", "Not"}
    THEN RefPrefix(toks[1].sort, RefExp(Tail(toks), in_paren, cond), cond)
    ELSE IF Len(toks) = 1
    THEN (IF toks[1].sort = "Identifier" THEN Some(RefAccess(toks[1].name))
          ELSE IF toks[1].sort = "IntNumber" THEN Some(RefNumber(toks[1].num))
          ELSE RefNone)
    ELSE IF toks[1].sort = "LeftParen" /\ toks[Len(toks)].sort = "RightParen"
    THEN RefExp(SubSeq(toks, 2, Len(toks) - 1), TRUE, cond)
    ELSE RefNone

RECURSIVE Strip(_)
\* an expression of the parser without its spans
Strip(node) ==
    IF node.k = "BinOp" THEN RefBinOp(node.op, Strip(node.lhs), Strip(node.rhs))
    ELSE IF node.k = "Access"
    THEN [k |-> "Access", name |-> node.name,
          indexes |-> IF node.indexes.some THEN Len(node.indexes.v) ELSE 0]
    ELSE IF node.k = "Number" THEN RefNumber(node.num)
    ELSE [k |-> node.k]

\* the tokens are  int main ( ) { while ( e ) { } }
IsWhileProgram(toks) ==
    /\ Len(toks) >= 12
    /\ [i \in 1..7 |-> toks[i].sort]
         = <<"Int", "Identifier", "LeftParen", "RightParen", "LeftBrace", "While",
             "LeftParen">>
    /\ [i \in 1..4 |-> toks[Len(toks) - 4 + i].sort]
         = <<"RightParen", "LeftBrace", "RightBrace", "RightBrace">>

WhileCondTokens(toks) == SubSeq(toks, 8, Len(toks) - 4)

\* the tree is one function whose body is one while: its condition
WhileCondOf(ast) ==
    IF /\ Len(ast) = 1
       /\ ast[1].k = "Func"
       /\ ast[1].body.k = "Block"
       /\ Len(ast[1].body.stmts) = 1
       /\ ast[1].body.stmts[1].k = "While"
    THEN Some(Strip(ast[1].body.stmts[1].cond))
    ELSE RefNone

\* C14: when parse returns, the condition of the while is the tree of the
\* reference (an operator that binds less is nearer to the root, operators of
\* one level associate to the left, "( e )" is the tree of e) and nothing
\* was reported; and if the condition is no expression, as with a "(" that no
\* ")" closes, a mismatch was reported.
C14_Precedence ==
    parser.pc = "returned" /\ IsWhileProgram(lexer.tokens) =>
       LET ref == RefExp(WhileCondTokens(lexer.tokens), FALSE, TRUE)
       IN IF ref.some
          THEN parser.diag = <<>> /\ WhileCondOf(parser.ast) = ref
          ELSE parser.diag # <<>>

\* the tokens are  int main ( ) { x = e ; }
IsAssignProgram(toks) ==
    /\ Len(toks) >= 10
    /\ [i \in 1..7 |-> toks[i].sort]
         = <<"Int", "Identifier", "LeftParen", "RightParen", "LeftBrace", "Identifier",
             "Assign">>
    /\ [i \in 1..2 |-> toks[Len(toks) - 2 + i].sort] = <<"Semicolon", "RightBrace">>

AssignTokens(toks) == SubSeq(toks, 8, Len(toks) - 2)

\* the tree is one function whose body is one assignment: its right-hand side
AssignExprOf(ast) ==
    IF /\ Len(ast) = 1
       /\ ast[1].k = "Func"
       /\ ast[1].body.k = "Block"
       /\ Len(ast[1].body.stmts) = 1
       /\ ast[1].body.stmts[1].k = "Assign"
    THEN Some(Strip(ast[1].body.stmts[1].expr))
    ELSE RefNone

\* toks is prefix operators, at least one, and then an identifier
IsPrefixChain(toks) ==
    /\ Len(toks) >= 2
    /\ toks[Len(toks)].sort = "Identifier"
    /\ \A i \in 1..(Len(toks) - 1) : toks[i].sort \in {"Plus", "Minus", "Not"}

\* the expression of the program, the tree parsed for it and whether it
\* stands in a condition
UnaryCase(toks, ast) ==
    IF IsWhileProgram(toks)
    THEN [toks |-> WhileCondTokens(toks), tree |-> WhileCondOf(ast), cond |-> TRUE]
    ELSE IF IsAssignProgram(toks)
    THEN [toks |-> AssignTokens(toks), tree |-> AssignExprOf(ast), cond |-> FALSE]
    ELSE [toks |-> <<>>, tree |-> RefNone, cond |-> FALSE]

\* C17: when parse returns, an expression made of prefix operators and an
\* identifier is the tree of the rewriting: "+" e is e, "-" e is
\* BinOp(Minus, Number 0, e) and, in a condition, "!" e is
\* BinOp(Equal, e, Number 0), for e with prefix operators of its own too,
\* with nothing reported; a "!" outside a condition is reported.
C17_UnaryRewrite ==
    LET c == UnaryCase(lexer.tokens, parser.ast)
    IN parser.pc = "returned" /\ IsPrefixChain(c.toks) =>
          LET ref == RefExp(c.toks, FALSE, c.cond)
          IN IF ref.some
             THEN parser.diag = <<>> /\ c.tree = ref
             ELSE parser.diag # <<>>

\* an operand as it is spelled: the name of an identifier, the value of a
\* number
Operand(name, num) == [name |-> name, num |-> num]

\* the operands among the tokens, in order
OperandTokens(toks) ==
    LET ops == SelectSeq(toks, LAMBDA t : t.sort \in {"Identifier", "IntNumber"})
    IN [i \in 1..Len(ops) |-> Operand(ops[i].name, ops[i].num)]

RECURSIVE Operands(_)
RECURSIVE OperandsOfAll(_)
\* the operands at the leaves of an expression of the parser, in order
Operands(node) ==
    IF node.k = "BinOp" THEN Operands(node.lhs) \o Operands(node.rhs)
    ELSE IF node.k = "Access"
    THEN <<Operand(node.name, 0)>> \o OperandsOfAll(node.indexes.v)
    ELSE IF node.k = "Call" THEN <<Operand(node.name, 0)>> \o OperandsOfAll(node.args)
    ELSE IF node.k = "Number" THEN <<Operand(<<>>, node.num)>>
    ELSE <<>>

OperandsOfAll(nodes) ==
    IF nodes = <<>> THEN <<>> ELSE Operands(Head(nodes)) \o OperandsOfAll(Tail(nodes))

\* the tokens are  int main ( ) { s .. s }  for statements s that begin with
\* an identifier, hold no prefix operator and end with ";"
IsStmtProgram(toks) ==
    /\ Len(toks) >= 8
    /\ [i \in 1..6 |-> toks[i].sort]
         = <<"Int", "Identifier", "LeftParen", "RightParen", "LeftBrace", "Identifier">>
    /\ toks[Len(toks)].sort = "RightBrace"
    /\ toks[Len(toks) - 1].sort = "Semicolon"
    /\ \A i \in 6..(Len(toks) - 1) :
          /\ toks[i].sort \in {"Identifier", "IntNumber", "LeftParen", "RightParen",
                               "LeftBracket", "RightBracket", "Comma", "Assign",
                               "Semicolon", "Plus", "Minus", "Multi"}
          /\ toks[i].sort \in {"Plus", "Minus", "Multi"} => IsBinaryAt(toks, i)
          /\ toks[i].sort = "Semicolon" /\ i < Len(toks) - 1 =>
                toks[i + 1].sort = "Identifier"

Semicolons(toks) == {i \in 1..Len(toks) : toks[i].sort = "Semicolon"}

\* the offset of the ";" of statement n of the body, and of its first token
StmtEnd(toks, n) ==
    CHOOSE i \in Semicolons(toks) : Cardinality({j \in Semicolons(toks) : j <= i}) = n
StmtBegin(toks, n) == IF n = 1 THEN 6 ELSE StmtEnd(toks, n - 1) + 1

\* the statements parsed for the body of main
BodyOf(ast) ==
    IF Len(ast) = 1 /\ ast[1].k = "Func" /\ ast[1].body.k = "Block"
    THEN ast[1].body.stmts ELSE <<>>

\* statement n is an Assign or an ExprStmt made of all the tokens from its
\* identifier to its ";", each once
WholeStatement(toks, st, n) ==
    LET first == StmtBegin(toks, n)
        last == StmtEnd(toks, n)
        seg == SubSeq(toks, first, last - 1)
    IN /\ st.s = toks[first].startpos
       /\ st.e = toks[last].endpos
       /\ IF \E i \in 1..Len(seg) : seg[i].sort = "Assign"
          THEN /\ st.k = "Assign"
               /\ <<Operand(st.name, 0)>> \o OperandsOfAll(st.indexes.v)
                    \o Operands(st.expr) = OperandTokens(seg)
          ELSE /\ st.k = "ExprStmt"
               /\ Operands(st.expr) = OperandTokens(seg)
               /\ st.expr.e = toks[last - 1].endpos

\* the expression of an ExprStmt begins at token i
ExprBeginsAt(toks, st, i) == st.k = "ExprStmt" => st.expr.s = toks[i].startpos

\* every statement of the body is whole, nothing is reported and every token
\* is consumed
StmtsWhole ==
    /\ parser.diag = <<>>
    /\ parser.current = Len(lexer.tokens)
    /\ Len(BodyOf(parser.ast)) = Cardinality(Semicolons(lexer.tokens))
    /\ \A n \in 1..Len(BodyOf(parser.ast)) :
          WholeStatement(lexer.tokens, BodyOf(parser.ast)[n], n)

\* C18 as it is stated: a statement that begins with an identifier is an
\* Assign if "=" follows the identifier and its indexes, and otherwise an
\* ExprStmt, with every token consumed once, whose expression is parsed anew
\* from the cursor just after the identifier.
C18_ResetAfterIdentifier ==
    parser.pc = "returned" /\ IsStmtProgram(lexer.tokens) =>
       /\ StmtsWhole
       /\ \A n \in 1..Len(BodyOf(parser.ast)) :
             ExprBeginsAt(lexer.tokens, BodyOf(parser.ast)[n],
                          StmtBegin(lexer.tokens, n) + 1)

\* C18, amended: the same, but the expression of the ExprStmt is parsed
\* anew from the identifier itself (the cursor just after it less one).
C18_ResetToIdentifier ==
    parser.pc = "returned" /\ IsStmtProgram(lexer.tokens) =>
       /\ StmtsWhole
       /\ \A n \in 1..Len(BodyOf(parser.ast)) :
             ExprBeginsAt(lexer.tokens, BodyOf(parser.ast)[n],
                          StmtBegin(lexer.tokens, n))

\* a[1] = 2; f(2, b);  an assignment with an index, then a call statement
C18_Witness ==
    /\ parser.pc = "returned"
    /\ IsStmtProgram(lexer.tokens)
    /\ Len(BodyOf(parser.ast)) = 2
    /\ BodyOf(parser.ast)[1].k = "Assign"
    /\ BodyOf(parser.ast)[1].indexes.some
    /\ BodyOf(parser.ast)[2].k = "ExprStmt"
    /\ BodyOf(parser.ast)[2].expr.k = "Call"
    /\ Len(BodyOf(parser.ast)[2].expr.args) = 2

(***************************************************************************)
(* Semantic analysis.  The state R of an analysis holds the Runtime        *)
(* (global, local, loop_count, cur_func_name, cur_func_type), the position *)
(* of semantic and of the statement traversal, and what a run shows of a   *)
(* failure: pc is "run" until a Rust panic makes it "panic", fail names    *)
(* that panic, diag lists the messages Node::error_spot has printed.       *)
(* Every function returns the state after it with its result; on a         *)
(* panicked state it does nothing.                                         *)
(***************************************************************************)
\* HashMap<String, Var>: a function from the names bound to their Var
EmptyMap == <<>>
MapInsert(m, name, var) ==
    [n \in (DOMAIN m) \cup {name} |-> IF n = name THEN var ELSE m[n]]

\* Var::new
Var(basic_type, node) == [basic_type |-> basic_type, node |-> node]

NoFail == [kind |-> "", msg |-> ""]

\* Runtime::new, with the locals of semantic
RuntimeNew(ast) ==
    [pc |-> "run", fail |-> NoFail, diag |-> <<>>,
     global |-> EmptyMap, local |-> <<>>, loop_count |-> 0,
     cur_func_name |-> <<>>, cur_func_type |-> BasicType("Nil"),
     ast |-> ast, pass |-> 1, idx |-> 1, new_nodes |-> <<>>, stack |-> <<>>]

\* a Rust panic: the run ends there
SemPanic(R, kind, msg) ==
    IF R.pc # "run" THEN R
    ELSE [R EXCEPT !.pc = "panic", !.fail = [kind |-> kind, msg |-> msg]]

\* unreachable!()
unreachable(R) == SemPanic(R, "unreachable", "")

\* Runtime::enter_scope
enter_scope(R) == [R EXCEPT !.local = Append(@, EmptyMap)]

\* exit_scope with the pop lost
exit_scope_none(R) == R

\* Runtime::exit_scope: Vec::pop of an empty vector does nothing
exit_scope(R) ==
    IF R.local = <<>> THEN R
    ELSE [R EXCEPT !.local = SubSeq(@, 1, Len(@) - 1)]

\* startpos_loop with the increment lost
startpos_loop_none(R) == R

\* Runtime::startpos_loop
startpos_loop(R) == [R EXCEPT !.loop_count = @ + 1]

\* Runtime::endpos_loop: loop_count is a usize, below 0 the subtraction
\* overflows
endpos_loop(R) ==
    IF R.loop_count = 0 THEN SemPanic(R, "overflow", "")
    ELSE [R EXCEPT !.loop_count = @ - 1]

\* Runtime::is_in_loop
is_in_loop(R) == R.loop_count # 0

\* Runtime::set_cur_func
set_cur_func(R, func_name, func_type) ==
    [R EXCEPT !.cur_func_name = func_name, !.cur_func_type = func_type]

\* Runtime::insert: a name already defined is replaced without any report
insert(R, name, basic_type, node) ==
    IF R.pc # "run" THEN R
    ELSE IF R.local = <<>> \/ node.k = "Func"
    THEN [R EXCEPT !.global = MapInsert(@, name, Var(basic_type, node))]
    ELSE [R EXCEPT !.local[Len(R.local)] = MapInsert(@, name, Var(basic_type, node))]

\* the frames of local that bind name
FramesWith(R, name) == {i \in 1..Len(R.local) : name \in DOMAIN R.local[i]}

Maximum(S) == CHOOSE x \in S : \A y \in S : y <= x

\* find with the frames searched from the outermost to the innermost
find_outermost(R, name) ==
    IF R.pc # "run" THEN [r |-> R, var |-> Var(BasicType("Nil"), NilNode)]
    ELSE IF FramesWith(R, name) # {}
    THEN [r |-> R, var |-> R.local[CHOOSE i \in FramesWith(R, name) :
                                   \A j \in FramesWith(R, name) : i <= j][name]]
    ELSE IF name \in DOMAIN R.global
    THEN [r |-> R, var |-> R.global[name]]
    ELSE [r |-> unreachable(R), var |-> Var(BasicType("Nil"), NilNode)]

\* Runtime::find: r is the state after the call, var the Var found
find(R, name) ==
    IF R.pc # "run" THEN [r |-> R, var |-> Var(BasicType("Nil"), NilNode)]
    ELSE IF FramesWith(R, name) # {}
    THEN [r |-> R, var |-> R.local[Maximum(FramesWith(R, name))][name]]
    ELSE IF name \in DOMAIN R.global
    THEN [r |-> R, var |-> R.global[name]]
    ELSE [r |-> unreachable(R), var |-> Var(BasicType("Nil"), NilNode)]

\* Node::error_spot: code is the empty string, so code_chars[startpos] or
\* code_chars[endpos] is read out of range unless the span is [0, 0); only
\* then the message is printed, and the call returns
error_spot(R, node, msg) ==
    IF R.pc # "run" THEN R
    ELSE IF node.s # 0 \/ node.e # 0 THEN SemPanic(R, "index out of bounds", msg)
    ELSE [R EXCEPT !.diag = Append(@, msg)]

\* the range of an i32
MinI32 == -2147483647 - 1
MaxI32 == 2147483647

Bool2Int(b) == IF b THEN 1 ELSE 0

\* the remainder of Rust's %, which truncates towards zero like its /
Abs(x) == IF x < 0 THEN -x ELSE x
RECURSIVE TruncDiv(_, _)
TruncDiv(l, r) ==
    IF r = MinI32 THEN (IF l = MinI32 THEN 1 ELSE 0)
    ELSE IF r < 0 THEN -TruncDiv(l, -r)
    ELSE IF l >= 0 THEN l \div r
    ELSE (l + r - 1) \div r
TruncRem(l, r) == l - r * TruncDiv(l, r)

\* TokenType::calc, for the operators it is defined on
CalcValue(sort, lhs, rhs) ==
    CASE sort = "Plus" -> lhs + rhs
      [] sort = "Minus" -> lhs - rhs
      [] sort = "Multi" -> lhs * rhs
      [] sort = "Divide" -> TruncDiv(lhs, rhs)
      [] sort = "Mods" -> TruncRem(lhs, rhs)
      [] sort = "Equal" -> Bool2Int(lhs = rhs)
      [] sort = "NotEqual" -> Bool2Int(lhs # rhs)
      [] sort = "Lesserthan" -> Bool2Int(lhs < rhs)
      [] sort = "Greaterthan" -> Bool2Int(lhs > rhs)
      [] sort = "LessEqual" -> Bool2Int(lhs <= rhs)
      [] sort = "GreatEqual" -> Bool2Int(lhs >= rhs)
      [] sort = "And" -> Bool2Int(lhs # 0 /\ rhs # 0)
      [] sort = "Or" -> Bool2Int(lhs # 0 \/ rhs # 0)

CalcSorts ==
    {"Plus", "Minus", "Multi", "Divide", "Mods", "Equal", "NotEqual", "Lesserthan",
     "Greaterthan", "LessEqual", "GreatEqual", "And", "Or"}

\* the i32 result of lhs * rhs is out of range
MulOverflows(lhs, rhs) ==
    IF lhs = 0 \/ rhs = 0 THEN FALSE
    ELSE IF lhs = MinI32 THEN rhs # 1
    ELSE IF rhs = MinI32 THEN lhs # 1
    ELSE IF (lhs < 0) = (rhs < 0) THEN Abs(lhs) > MaxI32 \div Abs(rhs)
    ELSE -Abs(lhs) < (MinI32 + Abs(rhs) - 1) \div Abs(rhs)

\* the i32 result of the operator is out of range
Overflows(sort, lhs, rhs) ==
    CASE sort = "Plus" -> \/ rhs > 0 /\ lhs > MaxI32 - rhs
                          \/ rhs < 0 /\ lhs < MinI32 - rhs
      [] sort = "Minus" -> \/ rhs < 0 /\ lhs > MaxI32 + rhs
                           \/ rhs > 0 /\ lhs < MinI32 + rhs
      [] sort = "Multi" -> MulOverflows(lhs, rhs)
      [] sort \in {"Divide", "Mods"} -> lhs = MinI32 /\ rhs = -1
      [] OTHER -> FALSE

\* TokenType::calc: a division by zero panics, and so does a result out of
\* the range of i32 where overflow is checked
calc(R, sort, lhs, rhs) ==
    IF R.pc # "run" THEN [r |-> R, v |-> 0]
    ELSE IF sort \notin CalcSorts THEN [r |-> unreachable(R), v |-> 0]
    ELSE IF sort \in {"Divide", "Mods"} /\ rhs = 0
    THEN [r |-> SemPanic(R, "divide by zero", ""), v |-> 0]
    ELSE IF Overflows(sort, lhs, rhs)
    THEN [r |-> SemPanic(R, "overflow", ""), v |-> 0]
    ELSE [r |-> R, v |-> CalcValue(sort, lhs, rhs)]

\* result of eval: the state after it and the integer
Val(r, v) == [r |-> r, v |-> v]

\* a node with its basic_type set
typed(n, ty) == [n EXCEPT !.ty = ty]

\* Node { startpos, endpos, node_type: Number(num), basic_type: Const }
ConstNumber(num, s, e) == typed(bound(NumberNode(num), s, e), BasicType("Const"))

IsIntOrConst(ty) == ty = BasicType("Int") \/ ty = BasicType("Const")

RECURSIVE go(_, _, _)
RECURSIVE eval_offset(_, _, _, _, _)

\* the loop of eval that adds up the offset of an element of a constant array
eval_offset(index, dims, i, R, offset) ==
    IF R.pc # "run" THEN Val(R, 0)
    ELSE IF i > Len(index) THEN Val(R, offset)
    ELSE LET id == go("eval", index[i], R)
         IN eval_offset(index, dims, i + 1, id.r,
                        offset + id.v * (IF i + 1 <= Len(dims) THEN dims[i + 1] ELSE 1))

\* eval, Access of a Const: the value is the first initializer of the
\* definition
eval_Const(node, R, def_node) ==
    LET R1 == IF node.indexes.some
              THEN error_spot(R, node, "Access constant with index")
              ELSE R
    IN IF R1.pc # "run" THEN Val(R1, 0)
       ELSE IF def_node.k # "Decl" THEN Val(unreachable(R1), 0)
       ELSE IF ~def_node.inits.some THEN Val(SemPanic(R1, "unwrap", ""), 0)
       ELSE IF def_node.inits.v = <<>> THEN Val(SemPanic(R1, "index out of bounds", ""), 0)
       ELSE IF def_node.inits.v[1].k = "Number" THEN Val(R1, def_node.inits.v[1].num)
       ELSE Val(unreachable(R1), 0)

\* eval, Access of a ConstArray: after the offset is computed the initializer
\* is looked for in node, the Access itself, and not in the definition
eval_ConstArray(node, R, dims) ==
    IF ~node.indexes.some
    THEN Val(unreachable(error_spot(R, node, "should be accessed with index")), 0)
    ELSE IF Len(node.indexes.v) # Len(dims)
    THEN Val(unreachable(error_spot(R, node, "Dimension should be")), 0)
    ELSE LET off == eval_offset(node.indexes.v, dims, 1, R, 0)
         IN IF off.r.pc # "run" THEN Val(off.r, 0)
            ELSE IF node.k # "Decl" THEN Val(unreachable(off.r), 0)
            ELSE IF ~node.inits.some THEN Val(SemPanic(off.r, "unwrap", ""), 0)
            ELSE IF off.v < 0 \/ off.v >= Len(node.inits.v)
            THEN Val(unreachable(error_spot(off.r, node, "Index out of range")), 0)
            ELSE IF node.inits.v[off.v + 1].k = "Number"
            THEN Val(off.r, node.inits.v[off.v + 1].num)
            ELSE Val(unreachable(off.r), 0)

\* eval, Access
eval_Access(node, R) ==
    LET f == find(R, node.name)
    IN IF f.r.pc # "run" THEN Val(f.r, 0)
       ELSE IF f.var.basic_type.t = "Const" THEN eval_Const(node, R, f.var.node)
       ELSE IF f.var.basic_type.t = "ConstArray"
       THEN eval_ConstArray(node, R, f.var.basic_type.dims)
       ELSE IF f.var.basic_type.t \in {"Int", "IntArray"}
       THEN Val(unreachable(error_spot(R, node, "should be a constant")), 0)
       ELSE Val(unreachable(R), 0)

\* eval, BinOp
eval_BinOp(node, R) ==
    LET l == go("eval", node.lhs, R)
        r == go("eval", node.rhs, l.r)
    IN calc(r.r, node.op, l.v, r.v)

\* eval
eval(node, R) ==
    IF R.pc # "run" THEN Val(R, 0)
    ELSE CASE node.k = "Nil" -> Val(R, 0)
           [] node.k = "Call" ->
                Val(unreachable(error_spot(R, node,
                        "Cannot call function in constant expression")), 0)
           [] node.k = "Number" -> Val(R, node.num)
           [] node.k = "BinOp" -> eval_BinOp(node, R)
           [] node.k = "Access" -> eval_Access(node, R)
           [] OTHER -> Val(unreachable(R), 0)

\* result of traverse: the state after it and the new node (or list)
Out(r, n) == [r |-> r, n |-> n]

RECURSIVE traverse_indexes(_, _, _, _, _, _)
RECURSIVE error_spot_times(_, _, _, _)
RECURSIVE traverse_args(_, _, _, _, _)
RECURSIVE expand_loop(_, _, _, _, _, _, _)
RECURSIVE traverse_dims(_, _, _, _, _)
RECURSIVE traverse_decls(_, _, _, _)
RECURSIVE DimProduct(_, _)

\* "for index in indexes { traverse(index); check; push }" of Access and of
\* Assign: a new index that is neither Int nor Const is reported at node
traverse_indexes(indexes, i, R, node, msg, new_indexes) ==
    IF R.pc # "run" THEN Out(R, <<>>)
    ELSE IF i > Len(indexes) THEN Out(R, new_indexes)
    ELSE LET x == go("traverse", indexes[i], R)
         IN traverse_indexes(indexes, i + 1,
                IF x.r.pc = "run" /\ ~IsIntOrConst(x.n.ty)
                THEN error_spot(x.r, node, msg) ELSE x.r,
                node, msg, Append(new_indexes, x.n))

\* the access typed over the dimensions from the last index on
traverse_ArrayAccess_from(node, R, basic_type, nn) ==
    LET ix == traverse_indexes(IF node.indexes.some THEN node.indexes.v ELSE <<>>,
                               1, R, node, "Index should be int or const", <<>>)
        index_len == Len(ix.n)
        dim_len == Len(basic_type.dims)
    IN IF ix.r.pc # "run" THEN Out(ix.r, NilNode)
       ELSE Out(ix.r,
                typed(bound(AccessNode(node.name, node.indexes, nn), node.s, node.e),
                      ArrayType(basic_type.t,
                                SubSeq(basic_type.dims, Maximum({1, index_len}), dim_len))))

\* traverse, Access of an IntArray or a ConstArray
traverse_ArrayAccess(node, R, basic_type, nn) ==
    IF ~node.indexes.some
    THEN Out(R, typed(bound(AccessNode(node.name, NoList, nn), node.s, node.e),
                      basic_type))
    ELSE LET ix == traverse_indexes(node.indexes.v, 1, R, node,
                                    "Index should be int or const", <<>>)
             index_len == Len(ix.n)
             dim_len == Len(basic_type.dims)
             scalar == IF basic_type.t = "IntArray" THEN "Int" ELSE "Const"
         IN IF ix.r.pc # "run" THEN Out(ix.r, NilNode)
            ELSE IF index_len > dim_len
            THEN Out(SemPanic(ix.r, "slice index", ""), NilNode)
            ELSE Out(ix.r,
                     typed(bound(AccessNode(node.name, Some(ix.n), nn), node.s, node.e),
                           IF index_len = dim_len THEN BasicType(scalar)
                           ELSE ArrayType(basic_type.t,
                                          SubSeq(basic_type.dims, index_len + 1, dim_len))))

\* traverse, Access
traverse_Access(node, R) ==
    LET f == find(R, node.name)
        basic_type == f.var.basic_type
        nn == typed(f.var.node, f.var.basic_type)
    IN IF f.r.pc # "run" THEN Out(f.r, NilNode)
       ELSE IF f.var.node.k # "Decl"
       THEN Out(unreachable(error_spot(R, node,
                    "cannot be accessed since it is a function")), NilNode)
       ELSE IF basic_type.t = "Const"
       THEN LET num == go("eval", node, R)
            IN Out(num.r, ConstNumber(num.v, node.s, node.e))
       ELSE IF basic_type.t = "Int"
       THEN Out(R, typed(bound(AccessNode(node.name, node.indexes, nn), node.s, node.e),
                         BasicType("Int")))
       ELSE IF basic_type.t \in {"IntArray", "ConstArray"}
       THEN traverse_ArrayAccess(node, R, basic_type, nn)
       ELSE Out(unreachable(R), NilNode)

\* traverse, BinOp: two Const operands are folded into a Number
traverse_BinOp(node, R) ==
    LET l == go("traverse", node.lhs, R)
        R1 == IF l.r.pc = "run" /\ ~IsIntOrConst(l.n.ty)
              THEN error_spot(l.r, node.lhs,
                       "Expression at the left of the operator should be int or const")
              ELSE l.r
        r == go("traverse", node.rhs, R1)
        R2 == IF r.r.pc = "run" /\ ~IsIntOrConst(r.n.ty)
              THEN error_spot(r.r, node.rhs,
                       "Expression at the right of the operator should be int or const")
              ELSE r.r
    IN IF R2.pc # "run" THEN Out(R2, NilNode)
       ELSE IF l.n.ty = BasicType("Const") /\ r.n.ty = BasicType("Const")
       THEN LET num == go("eval", node, R2)
            IN Out(num.r, ConstNumber(num.v, node.s, node.e))
       ELSE Out(R2, typed(bound(binary_operation(node.op, l.n, r.n), node.s, node.e),
                          BasicType("Int")))

\* error_spot called k times with the same node and message
error_spot_times(R, node, msg, k) ==
    IF k = 0 THEN R ELSE error_spot_times(error_spot(R, node, msg), node, msg, k - 1)

\* the positions past the first where the dimensions of an array argument
\* and of its parameter differ
DimsUnmatched(call_dims, def_dims) ==
    {j \in 2..Len(call_dims) : j <= Len(def_dims) /\ call_dims[j] # def_dims[j]}

\* the check of one argument of a call against its parameter
check_arg(R, call_arg, def_arg, new_call_arg) ==
    IF R.pc # "run" THEN R
    ELSE IF def_arg.k = "Decl" /\ def_arg.btype = BasicType("Int")
            /\ IsIntOrConst(new_call_arg.ty)
    THEN R
    ELSE IF def_arg.k = "Decl" /\ def_arg.btype.t = "IntArray"
            /\ new_call_arg.ty.t = "IntArray"
    THEN error_spot_times(R, call_arg, "error_spot dimension in function call",
             Cardinality(DimsUnmatched(new_call_arg.ty.dims, def_arg.btype.dims)))
    ELSE error_spot(R, call_arg, "Unmatched type in function call")

\* "for (call_arg, def_arg) in call_args.iter().zip(def_args.iter())"
traverse_args(arg_list, param_list, i, R, new_arg_list) ==
    IF R.pc # "run" THEN Out(R, <<>>)
    ELSE IF i > Len(arg_list) \/ i > Len(param_list) THEN Out(R, new_arg_list)
    ELSE LET x == go("traverse", arg_list[i], R)
         IN traverse_args(arg_list, param_list, i + 1,
                check_arg(x.r, arg_list[i], param_list[i], x.n),
                Append(new_arg_list, x.n))

\* traverse_Call with the check of the argument count lost
traverse_Call_any_count(node, R) ==
    LET f == find(R, node.name)
        n == f.var.node
        a == traverse_args(node.args, n.params, 1, R, <<>>)
    IN IF f.r.pc # "run" THEN Out(f.r, NilNode)
       ELSE IF n.k # "Func"
       THEN Out(unreachable(error_spot(R, node, "is not a function")), NilNode)
       ELSE Out(a.r, typed(bound(CallNode(node.name, a.n, n), node.s, node.e), n.ret))

\* traverse, Call
traverse_Call(node, R) ==
    LET f == find(R, node.name)
        n == f.var.node
        R1 == IF Len(node.args) # Len(n.params)
              THEN error_spot(R, node, "Argument length") ELSE R
        a == traverse_args(node.args, n.params, 1, R1, <<>>)
    IN IF f.r.pc # "run" THEN Out(f.r, NilNode)
       ELSE IF n.k # "Func"
       THEN Out(unreachable(error_spot(R, node, "is not a function")), NilNode)
       ELSE Out(a.r, typed(bound(CallNode(node.name, a.n, n), node.s, node.e), n.ret))

\* traverse, Assign to an Int
traverse_AssignInt(node, R, n) ==
    LET R1 == IF node.indexes.some
              THEN error_spot(R, node, "Integer should not have indexes in assign")
              ELSE R
        x == go("traverse", node.expr, R1)
        R2 == IF x.r.pc = "run" /\ ~IsIntOrConst(x.n.ty)
              THEN error_spot(x.r, node, "Should assign int/const to int") ELSE x.r
    IN Out(R2, bound(AssignNode(node.name, NoList, x.n, n), node.s, node.e))

\* traverse, Assign to an IntArray, from the count of the indexes on
traverse_AssignIndexes(node, R, var, new_expr) ==
    IF R.pc # "run" THEN Out(R, NilNode)
    ELSE IF ~node.indexes.some THEN Out(SemPanic(R, "unwrap", ""), NilNode)
    ELSE LET R1 == IF Len(node.indexes.v) # Len(var.basic_type.dims)
                   THEN error_spot(R, node, "Indexes should be") ELSE R
             ix == traverse_indexes(node.indexes.v, 1, R1, node,
                                    "Index of array should be int/const", <<>>)
         IN Out(ix.r, bound(AssignNode(node.name, Some(ix.n), new_expr,
                                       typed(var.node, var.basic_type)),
                            node.s, node.e))

\* traverse, Assign to an IntArray
traverse_AssignArray(node, R, var) ==
    LET R1 == IF ~node.indexes.some
              THEN error_spot(R, node, "Integer array should have indexes in assign")
              ELSE R
        x == go("traverse", node.expr, R1)
        R2 == IF x.r.pc = "run" /\ ~IsIntOrConst(x.n.ty)
              THEN error_spot(x.r, node, "Should assign int/const to int") ELSE x.r
    IN traverse_AssignIndexes(node, R2, var, x.n)

\* traverse_Assign with the arm of the constants lost: a Const is assigned
\* like an Int, a ConstArray like an IntArray
traverse_Assign_any(node, R) ==
    LET f == find(R, node.name)
    IN IF f.r.pc # "run" THEN Out(f.r, NilNode)
       ELSE IF f.var.node.k # "Decl"
       THEN Out(unreachable(error_spot(R, node, "Cannot assign to function")), NilNode)
       ELSE IF f.var.basic_type.t \in {"Int", "Const"}
       THEN traverse_AssignInt(node, R, f.var.node)
       ELSE IF f.var.basic_type.t \in {"IntArray", "ConstArray"}
       THEN traverse_AssignArray(node, R, f.var)
       ELSE Out(unreachable(R), NilNode)

\* traverse, Assign: a constant target is refused before anything else of the
\* statement is looked at
traverse_Assign(node, R) ==
    LET f == find(R, node.name)
    IN IF f.r.pc # "run" THEN Out(f.r, NilNode)
       ELSE IF f.var.node.k # "Decl"
       THEN Out(unreachable(error_spot(R, node, "Cannot assign to function")), NilNode)
       ELSE IF f.var.basic_type.t \in {"Const", "ConstArray"}
       THEN Out(unreachable(error_spot(R, node, "Cannot assign to constant")), NilNode)
       ELSE IF f.var.basic_type.t = "Int" THEN traverse_AssignInt(node, R, f.var.node)
       ELSE IF f.var.basic_type.t = "IntArray" THEN traverse_AssignArray(node, R, f.var)
       ELSE Out(unreachable(R), NilNode)

\* traverse, ExprStmt
traverse_ExprStmt(node, R) ==
    LET x == go("traverse", node.expr, R)
    IN Out(x.r, bound(ExprStmtNode(x.n), node.s, node.e))

\* traverse, Return: the type returned, Int for a Const, is to be the type of
\* the current function
traverse_Return(node, R) ==
    LET x == IF node.expr.some THEN go("traverse", node.expr.v, R) ELSE Out(R, NilNode)
        ret_type == IF ~node.expr.some THEN BasicType("Void")
                    ELSE IF x.n.ty = BasicType("Const") THEN BasicType("Int")
                    ELSE x.n.ty
        R1 == IF x.r.pc = "run" /\ ret_type # R.cur_func_type
              THEN error_spot(x.r, node, "Return type does not match") ELSE x.r
    IN Out(R1, bound(ReturnNode(IF node.expr.some THEN Some(x.n) ELSE NoNode),
                     node.s, node.e))

\* traverse, Break
traverse_Break(node, R) ==
    Out(IF ~is_in_loop(R) THEN error_spot(R, node, "Break should in a loop") ELSE R,
        node)

\* traverse, Continue
traverse_Continue(node, R) ==
    Out(IF ~is_in_loop(R) THEN error_spot(R, node, "Continue should in a loop") ELSE R,
        node)

RECURSIVE DimProduct_whole(_, _)
\* max as the product of all the dimensions, whatever the level
DimProduct_whole(dims, level) ==
    IF dims = <<>> THEN 1
    ELSE (IF dims[1].k = "Number" THEN dims[1].num ELSE 1)
         * DimProduct_whole(Tail(dims), level)

\* the product of the dimensions after the first `level` ones
DimProduct(dims, level) ==
    IF level >= Len(dims) THEN 1
    ELSE (IF dims[level + 1].k = "Number" THEN dims[level + 1].num ELSE 1)
         * DimProduct(dims, level + 1)

\* the zeros that fill an initializer up
ZeroFill(count) == [j \in 1..count |-> ConstNumber(0, 0, 0)]

\* the loop of expand_inits over the initializers
expand_loop(dims, inits, need_eval, R, level, i, expanded) ==
    IF R.pc # "run" THEN Out(R, <<>>)
    ELSE IF i > Len(inits) THEN Out(R, expanded)
    ELSE IF inits[i].k = "InitList"
    THEN LET sub == go("expand_inits",
                       [dims |-> dims, inits |-> inits[i].list, need_eval |-> need_eval,
                        level |-> level + 1], R)
         IN expand_loop(dims, inits, need_eval, sub.r, level, i + 1, expanded \o sub.n)
    ELSE IF need_eval
    THEN LET v == go("eval", inits[i], R)
         IN expand_loop(dims, inits, need_eval, v.r, level, i + 1,
                        Append(expanded, ConstNumber(v.v, inits[i].s, inits[i].e)))
    ELSE LET ini == go("traverse", inits[i], R)
         IN expand_loop(dims, inits, need_eval, ini.r, level, i + 1,
                        Append(expanded, ini.n))

\* expand_end with the zeros lost: a shorter list stays as it is
expand_end_no_fill(dims, inits, x, level) ==
    IF x.r.pc # "run" THEN Out(x.r, <<>>)
    ELSE IF Len(x.n) > DimProduct(dims, level)
    THEN IF inits = <<>> THEN Out(SemPanic(x.r, "unwrap", ""), <<>>)
         ELSE Out(error_spot(x.r, inits[Len(inits)], "Length of initializer exceeded"),
                  x.n)
    ELSE x

\* expand_inits, after the loop: too long a list is reported, a shorter one
\* is filled up with zeros
expand_end(dims, inits, x, level) ==
    IF x.r.pc # "run" THEN Out(x.r, <<>>)
    ELSE IF DimProduct(dims, level) < 0 THEN Out(SemPanic(x.r, "out of model", ""), <<>>)
    ELSE IF Len(x.n) > DimProduct(dims, level)
    THEN IF inits = <<>> THEN Out(SemPanic(x.r, "unwrap", ""), <<>>)
         ELSE Out(error_spot(x.r, inits[Len(inits)], "Length of initializer exceeded"),
                  x.n)
    ELSE Out(x.r, x.n \o ZeroFill(DimProduct(dims, level) - Len(x.n)))

\* expand_inits
expand_inits(dims, inits, need_eval, R, level) ==
    IF R.pc # "run" THEN Out(R, <<>>)
    ELSE IF level = Len(dims) /\ inits = <<>> THEN Out(SemPanic(R, "unwrap", ""), <<>>)
    ELSE IF level > Len(dims) THEN Out(SemPanic(R, "unwrap", ""), <<>>)
    ELSE expand_end(dims, inits,
             expand_loop(dims, inits, need_eval,
                 IF level = Len(dims)
                 THEN error_spot(R, inits[Len(inits)], "Dimension of initializer exceeded")
                 ELSE R,
                 level, 1, <<>>),
             level)

\* the loop of traverse, Decl over the dimensions: new are the Number nodes,
\* sizes their values
traverse_dims(dims, i, R, new, sizes) ==
    IF R.pc # "run" THEN [r |-> R, n |-> <<>>, sizes |-> <<>>]
    ELSE IF i > Len(dims) THEN [r |-> R, n |-> new, sizes |-> sizes]
    ELSE LET result == go("eval", dims[i], R)
             R1 == IF result.r.pc = "run" /\ result.v <= 0 /\ dims[i].k # "Nil"
                   THEN error_spot(result.r, dims[i], "Dimension should > 0")
                   ELSE result.r
         IN IF R1.pc = "run" /\ result.v < 0
            THEN [r |-> SemPanic(R1, "out of model", ""), n |-> <<>>, sizes |-> <<>>]
            ELSE traverse_dims(dims, i + 1, R1,
                     Append(new, ConstNumber(result.v, dims[i].s, dims[i].e)),
                     Append(sizes, result.v))

\* traverse, Decl, step 1: the dimensions
decl_dims(node, R) ==
    IF node.dims.some THEN traverse_dims(node.dims.v, 1, R, <<>>, <<>>)
    ELSE [r |-> R, n |-> <<>>, sizes |-> <<>>]

\* the type of the declaration once its dimensions are known
decl_type(node, sizes) ==
    IF ~node.dims.some THEN node.btype
    ELSE IF node.btype.t \in {"Int", "IntArray"} THEN ArrayType("IntArray", sizes)
    ELSE IF node.btype.t \in {"Const", "ConstArray"} THEN ArrayType("ConstArray", sizes)
    ELSE node.btype

\* traverse, Decl, step 2, one initializer of a declaration without
\* dimensions: it is evaluated when the declaration is const or global
decl_single_init(node, x) ==
    IF x.r.pc # "run" THEN Out(x.r, <<>>)
    ELSE IF node.btype = BasicType("Const") \/ node.scope = "Global"
    THEN LET v == go("eval", node.inits.v[1], x.r)
         IN Out(v.r, <<ConstNumber(v.v, node.inits.v[1].s, node.inits.v[1].e)>>)
    ELSE Out(x.r, <<x.n>>)

\* traverse, Decl, step 2: the initializers; d is the result of step 1
decl_inits(node, d) ==
    IF d.r.pc # "run" \/ ~node.inits.some THEN Out(d.r, <<>>)
    ELSE IF ~node.dims.some /\ Len(node.inits.v) = 1
    THEN decl_single_init(node, go("traverse", node.inits.v[1], d.r))
    ELSE IF node.dims.some
    THEN go("expand_inits",
            [dims |-> d.n, inits |-> node.inits.v, need_eval |-> node.scope = "Global",
             level |-> 0], d.r)
    ELSE Out(unreachable(error_spot(d.r, node, "error_spot initializer")), <<>>)

\* traverse, Decl, step 3: the new node is built and inserted
decl_insert(node, d, ini) ==
    IF ini.r.pc # "run" THEN Out(ini.r, NilNode)
    ELSE LET new_node ==
               DeclNode(decl_type(node, d.sizes), node.name,
                        IF node.dims.some THEN Some(d.n) ELSE NoList,
                        IF ini.n = <<>> THEN NoList ELSE Some(ini.n), node.scope)
         IN Out(insert(ini.r, node.name, decl_type(node, d.sizes), new_node), new_node)

decl_steps(node, d) == decl_insert(node, d, decl_inits(node, d))

\* traverse, Decl
traverse_Decl(node, R) == decl_steps(node, decl_dims(node, R))

\* "for decl in decls { new_node.push(traverse(decl)) }"
traverse_decls(decls, i, R, new_node) ==
    IF R.pc # "run" THEN Out(R, <<>>)
    ELSE IF i > Len(decls) THEN Out(R, new_node)
    ELSE LET x == go("traverse", decls[i], R)
         IN traverse_decls(decls, i + 1, x.r, Append(new_node, x.n))

\* traverse, DeclStmt
traverse_DeclStmt(node, R) ==
    LET l == traverse_decls(node.decls, 1, R, <<>>)
    IN Out(l.r, DeclStmtNode(l.n))

\* traverse, for the nodes that hold no statement; Block, If, While and Func
\* are traversed step by step by the actions below
traverse(node, R) ==
    IF R.pc # "run" THEN Out(R, NilNode)
    ELSE CASE node.k = "Break" -> traverse_Break(node, R)
           [] node.k = "Continue" -> traverse_Continue(node, R)
           [] node.k = "Number" -> Out(R, typed(node, BasicType("Const")))
           [] node.k = "DeclStmt" -> traverse_DeclStmt(node, R)
           [] node.k = "Decl" -> traverse_Decl(node, R)
           [] node.k = "Access" -> traverse_Access(node, R)
           [] node.k = "BinOp" -> traverse_BinOp(node, R)
           [] node.k = "Call" -> traverse_Call(node, R)
           [] node.k = "Assign" -> traverse_Assign(node, R)
           [] node.k = "ExprStmt" -> traverse_ExprStmt(node, R)
           [] node.k = "Return" -> traverse_Return(node, R)
           [] OTHER -> Out(unreachable(R), NilNode)

\* a call of one of the functions of the analysis that call each other;
\* the argument of expand_inits holds dims, inits, need_eval and level
go(function, node, R) ==
    CASE function = "traverse" -> traverse(node, R)
      [] function = "eval" -> eval(node, R)
      [] function = "expand_inits" ->
           expand_inits(node.dims, node.inits, node.need_eval, R, node.level)

(***************************************************************************)
(* semantic as a state machine.  The nodes that hold statements (Func,     *)
(* Block, If, While) are traversed step by step: R.stack holds a frame for *)
(* every call of traverse that has not returned, with the node, how far    *)
(* the call is (stage), the new children built so far (done) and the new   *)
(* condition or parameters (pre).  Every other statement is one step.      *)
(***************************************************************************)
Frame(node) == [node |-> node, stage |-> 0, done |-> <<>>, pre |-> <<>>]

Top(R) == R.stack[Len(R.stack)]

\* the call traverse(node, ctx) begins
Call(R, node) == [R EXCEPT !.stack = Append(@, Frame(node))]

\* the call of the top frame goes on from stage with pre
Stage(R, stage, pre) ==
    [R EXCEPT !.stack[Len(R.stack)].stage = stage, !.stack[Len(R.stack)].pre = pre]

\* the call of the top frame returns new_node: to the caller's frame, or to
\* new_nodes of semantic
Return(R, new_node) ==
    IF R.pc # "run" THEN R
    ELSE IF Len(R.stack) = 1
    THEN [R EXCEPT !.stack = <<>>, !.new_nodes = Append(@, new_node)]
    ELSE [R EXCEPT !.stack =
              [SubSeq(R.stack, 1, Len(R.stack) - 1)
                  EXCEPT ![Len(R.stack) - 1].done = Append(@, new_node)]]

\* traverse is at a node of sort k, stage reached
At_(R, k, stage) ==
    /\ R.pc = "run"
    /\ R.stack # <<>>
    /\ Top(R).node.k = k
    /\ Top(R).stage = stage

\* a statement that holds no statement is traversed and the call returns
Leaf(R) ==
    LET x == go("traverse", Top(R).node, R)
    IN Return(x.r, x.n)

\* the condition of an If or a While is traversed and checked
Cond(R) ==
    LET x == go("traverse", Top(R).node.cond, R)
    IN Out(IF x.r.pc = "run" /\ ~IsIntOrConst(x.n.ty)
           THEN error_spot(x.r, Top(R).node, "Condition of if statement should be int/const")
           ELSE x.r,
           x.n)

(***************************************************************************)
(* The programs analysed: array declarations with initializers of every    *)
(* shape, assignments to constants and to variables, calls with too few,   *)
(* too many and the right number of arguments, and break and continue in   *)
(* and out of loops.                                                       *)
(***************************************************************************)
MaxDim == 3
MaxDepth == 2

RECURSIVE Commas(_)
\* the items with commas between them
Commas(items) ==
    IF items = <<>> THEN <<>>
    ELSE IF Len(items) = 1 THEN items[1]
    ELSE items[1] \o <<",">> \o Commas(Tail(items))

Braces(items) == <<"{">> \o Commas(items) \o <<"}">>

RECURSIVE Brackets(_)
\* "[d]" for every dimension d, a digit
Brackets(ds) ==
    IF ds = <<>> THEN <<>>
    ELSE <<"[", DecDigits[ds[1] + 1], "]">> \o Brackets(Tail(ds))

InitShapes ==
    {Braces(<<Braces(<<<<"1">>, <<"2">>, <<"3">>>>), Braces(<<<<"4">>, <<"5">>, <<"6">>>>)>>),
     Braces(<<Braces(<<<<"1">>, <<"2">>>>)>>),
     Braces(<<<<"1">>, <<"2">>, <<"3">>, <<"4">>, <<"5">>, <<"6">>>>),
     Braces(<<>>),
     Braces(<<<<"7">>>>),
     Braces(<<Braces(<<>>), Braces(<<<<"2">>>>)>>),
     Braces(<<<<"1">>, Braces(<<<<"2">>>>)>>),
     Braces(<<Braces(<<<<"1">>, <<"2">>>>), <<"3">>>>),
     Braces(<<Braces(<<<<"1">>, <<"2">>, <<"3">>, <<"4">>>>)>>),
     Braces(<<Braces(<<Braces(<<<<"1">>, <<"2">>>>), Braces(<<<<"3">>>>)>>), <<"4">>>>),
     Braces(<<Braces(<<Braces(<<Braces(<<<<"1">>>>)>>)>>)>>)}

DimLists ==
    {<<d>> : d \in 1..MaxDim}
    \cup {<<d[1], d[2]>> : d \in (1..MaxDim) \X (1..MaxDim)}
    \cup {<<2, d[1], d[2]>> : d \in (1..2) \X (1..MaxDim)}

ArrayDecl(qual, ds, init) ==
    qual \o <<"int", "a">> \o Brackets(ds) \o <<"=">> \o init \o <<";">>

ArrayPrograms ==
    {ArrayDecl(q, ds, init) : <<q, ds, init>> \in
        {<<>>, <<"const">>} \X DimLists \X InitShapes}
    \cup {InMain(ArrayDecl(q, ds, init)) : <<q, ds, init>> \in
        {<<>>, <<"const">>} \X DimLists \X InitShapes}

\* a global x, constant or not, and an assignment to x in main
AssignTargets ==
    {<<"const", "int", "x", "=", "5", ";">>,
     <<"int", "x", "=", "5", ";">>,
     <<"const", "int", "x", "[", "2", "]", "=", "{", "1", ",", "2", "}", ";">>,
     <<"int", "x", "[", "2", "]", ";">>}

AssignIndexes == {<<>>, <<"[", "0", "]">>, <<"[", "0", "]", "[", "1", "]">>}

AssignValues ==
    {<<"6">>, <<"x">>, <<"y">>, <<"1", "/", "0">>, <<"x", "[", "1", "]">>,
     <<"x", "+", "1">>, <<"2", "*", "3">>}

AssignBodies ==
    {<<"x">> \o ix \o <<"=">> \o v \o <<";">> : <<ix, v>> \in AssignIndexes \X AssignValues}

AssignPrograms ==
    {t \o InMain(b) : <<t, b>> \in AssignTargets \X AssignBodies}
    \cup {InMain(t \o <<"{">> \o b \o <<"}">>) : <<t, b>> \in AssignTargets \X AssignBodies}
    \cup {t \o InMain(<<"int", "x", ";">> \o b) : <<t, b>> \in AssignTargets \X AssignBodies}

\* a function f and a call of f in main
ParamLists ==
    {<<>>, <<"int", "x">>, <<"int", "x", ",", "int", "y">>,
     <<"int", "x", ",", "int", "y", "[", "]">>}

ArgLists ==
    {<<>>, <<"2">>, <<"2", ",", "3">>, <<"1", ",", "2", ",", "3">>, <<"2", ",", "g">>}

CallUses ==
    {<<"return">>, <<>>, <<"return", "1", "+">>, <<"g", "[", "0", "]", "=">>}

CallPrograms ==
    {<<"int", "g", "[", "2", "]", ";", "int", "f", "(">> \o ps
        \o <<")", "{", "return", "1", ";", "}">>
        \o InMain(u \o <<"f", "(">> \o as \o <<")", ";">>) :
     <<ps, as, u>> \in ParamLists \X ArgLists \X CallUses}

RECURSIVE LoopStmts(_)
\* the statements with break or continue under at most depth enclosing
\* statements
LoopStmts(depth) ==
    IF depth = 0 THEN {<<"break", ";">>, <<"continue", ";">>}
    ELSE LoopStmts(depth - 1)
         \cup {<<"while", "(", "1", ")">> \o st : st \in LoopStmts(depth - 1)}
         \cup {<<"while", "(", "0", ")", "{">> \o st \o <<"}">> : st \in LoopStmts(depth - 1)}
         \cup {<<"{">> \o st \o <<"}">> : st \in LoopStmts(depth - 1)}
         \cup {<<"if", "(", "1", ")">> \o st : st \in LoopStmts(depth - 1)}
         \cup {<<"if", "(", "1", ")">> \o st \o <<"else", "continue", ";">> :
                 st \in LoopStmts(depth - 1)}
         \cup {<<"{", "while", "(", "0", ")", "{", "}">> \o st \o <<"}">> :
                 st \in LoopStmts(depth - 1)}
         \cup {<<"{">> \o st \o <<"break", ";", "}">> : st \in LoopStmts(depth - 1)}

LoopPrograms == {InMain(st) : st \in LoopStmts(MaxDepth)}

\* x declared in the global table, in the frame of a function (as a parameter
\* or in the body) and in a block of the body, each with another type or
\* not at all, and x or the undeclared y used in the block and after it
ScopeHeads == {<<"int", "main", "(", ")">>, <<"int", "f", "(", "int", "x", ")">>}

ScopeUses == {<<"x", "[", "0", "]", "=", "1", ";">>, <<"y", "=", "1", ";">>}

ScopePrograms ==
    {g \o h \o <<"{">> \o o \o <<"{">> \o i \o u \o <<"}">> \o a \o <<"}">> :
     <<g, h, o, i, u, a>> \in
        {<<>>, <<"int", "x", "[", "1", "]", ";">>} \X ScopeHeads
        \X {<<>>, <<"int", "x", "[", "2", "]", ";">>}
        \X {<<>>, <<"int", "x", "[", "3", "]", ";">>}
        \X ScopeUses
        \X {<<>>, <<"x", "[", "0", "]", "=", "2", ";">>}}

\* global declarations before, between and after function definitions
OrderItems ==
    {<<"int", "x", "=", "5", ";">>,
     <<"const", "int", "c", "=", "1", ",", "d", "=", "2", ";">>,
     <<"int", "f", "(", ")", "{", "return", "0", ";", "}">>,
     <<"void", "g", "(", "int", "p", ")", "{", "}">>}

OrderPrograms ==
    {a \o b \o InMain(<<"return", "0", ";">>) \o c :
     <<a, b, c>> \in OrderItems \X OrderItems \X (OrderItems \cup {<<>>})}

\* a constant c, a variable v and a function f, and then a declaration of a,
\* const or not, scalar or array, global or in main, whose initializer holds
\* a literal, a constant expression, the variable or a call
InitHead ==
    <<"const", "int", "c", "=", "2", ";", "int", "v", "=", "3", ";",
      "int", "f", "(", ")", "{", "return", "1", ";", "}">>

InitElements ==
    {<<"5">>, <<"c">>, <<"c", "+", "1">>, <<"v">>, <<"v", "+", "1">>, <<"f", "(", ")">>}

InitDecls ==
    {q \o <<"int", "a", "=">> \o el \o <<";">> :
        <<q, el>> \in {<<>>, <<"const">>} \X InitElements}
    \cup {q \o <<"int", "a", "[", "2", "]", "=", "{">> \o el \o <<"}", ";">> :
        <<q, el>> \in {<<>>, <<"const">>} \X InitElements}
    \cup {q \o <<"int", "a", "[", "2", "]", "=", "{", "1", ",">> \o el \o <<"}", ";">> :
        <<q, el>> \in {<<>>, <<"const">>} \X InitElements}

InitPrograms ==
    {InitHead \o d \o InMain(<<>>) : d \in InitDecls}
    \cup {InitHead \o InMain(d) : d \in InitDecls}

\* a constant c, a variable v, an array a of two dimensions and a constant
\* array b of one, and in main an expression statement that accesses one of
\* them with no index, with fewer indexes than dimensions, with as many and
\* with more, the indexes being literals, c, v, or an array
AccessHead ==
    <<"const", "int", "c", "=", "1", ";", "int", "v", ";",
      "int", "a", "[", "2", "]", "[", "3", "]", ";",
      "const", "int", "b", "[", "2", "]", "=", "{", "7", ",", "8", "}", ";">>

AccessExprs ==
    {<<"a">>, <<"a", "[", "0", "]">>, <<"a", "[", "1", "]", "[", "2", "]">>,
     <<"a", "[", "0", "]", "[", "1", "]", "[", "2", "]">>,
     <<"a", "[", "v", "]">>, <<"a", "[", "c", "]", "[", "v", "]">>,
     <<"a", "[", "b", "]">>, <<"a", "[", "a", "[", "0", "]", "]">>,
     <<"a", "[", "b", "[", "1", "]", "]">>, <<"a", "[", "1", "]", "[", "b", "]">>,
     <<"b">>, <<"b", "[", "1", "]">>, <<"b", "[", "v", "]">>,
     <<"b", "[", "0", "]", "[", "0", "]">>, <<"b", "[", "a", "]">>,
     <<"c">>, <<"v">>, <<"c", "[", "0", "]">>, <<"v", "[", "0", "]">>}

\* binary operations over the same declarations: operands typed Int and
\* Const in the four combinations, arrays as operands, elements of the
\* constant array, a division by the literal 0 and nested operations
BinOpExprs ==
    {<<"v", "+", "v">>, <<"v", "-", "c">>, <<"c", "*", "v">>, <<"c", "+", "c">>,
     <<"c", "*", "7">>, <<"a", "+", "1">>, <<"b", "+", "b">>,
     <<"a", "[", "0", "]", "+", "v">>, <<"v", "+", "a", "[", "0", "]">>,
     <<"a", "[", "0", "]", "[", "1", "]", "+", "c">>,
     <<"b", "[", "1", "]", "+", "1">>, <<"b", "[", "1", "]", "+", "v">>,
     <<"c", "/", "0">>, <<"v", "/", "0">>,
     <<"c", "+", "c", "*", "7">>, <<"c", "+", "c", "+", "v">>, <<"v", "+", "c", "+", "c">>}

\* and as the condition of an if, where the relations are parsed and a
\* literal may come first
CondExprs ==
    {<<"7", "<", "c">>, <<"c", "eq", "1">>, <<"v", "le", "c">>, <<"7", "%", "8">>,
     <<"1", "+", "a">>, <<"a", "<", "1">>, <<"1", "+", "b", "[", "0", "]">>,
     <<"maxint", "+", "c">>, <<"c", "ne", "c", "+", "1">>, <<"v", ">", "7", "-", "8">>}

AccessPrograms ==
    {AccessHead \o InMain(e \o <<";">>) : e \in AccessExprs \cup BinOpExprs}
    \cup {AccessHead \o InMain(<<"if", "(">> \o e \o <<")", "{", "}">>) : e \in CondExprs}

\* a function f of one parameter, scalar or array of one and of two
\* dimensions, called in main with a scalar, with an array of one and of two
\* dimensions, with rows and elements of them, and with constants
ArgParams ==
    {<<"int", "x">>, <<"int", "y", "[", "]">>, <<"int", "y", "[", "]", "[", "3", "]">>,
     <<"int", "y", "[", "]", "[", "2", "]">>}

ArgExprs ==
    {<<"v">>, <<"c">>, <<"7">>, <<"v", "+", "1">>, <<"g">>, <<"a">>, <<"b">>,
     <<"a", "[", "0", "]">>, <<"a", "[", "0", "]", "[", "1", "]">>,
     <<"g", "[", "0", "]">>, <<"b", "[", "1", "]">>}

ArgPrograms ==
    {AccessHead \o <<"int", "g", "[", "2", "]", ";", "int", "f", "(">> \o ps
        \o <<")", "{", "return", "1", ";", "}">>
        \o InMain(<<"f", "(">> \o e \o <<")", ";">>) :
     <<ps, e>> \in ArgParams \X ArgExprs}

\* two declarations of x, one after the other in the global table, in the
\* body of main, and the second in a block of its own
RedefDecls ==
    {<<"int", "x", "=", "1", ";">>, <<"const", "int", "x", "=", "2", ";">>,
     <<"int", "x", "[", "2", "]", ";">>, <<"int", "y", ",", "x", ";">>}

RedefPrograms ==
    {a \o b \o InMain(<<"return", "0", ";">>) : <<a, b>> \in RedefDecls \X RedefDecls}
    \cup {InMain(a \o b \o <<"return", "0", ";">>) : <<a, b>> \in RedefDecls \X RedefDecls}
    \cup {InMain(a \o <<"{">> \o b \o <<"}", "return", "0", ";">>) :
             <<a, b>> \in RedefDecls \X RedefDecls}

SemPrograms ==
    {ProgArray, ProgFunc, ProgControl} \cup RedefPrograms
    \cup ArrayPrograms \cup AssignPrograms \cup CallPrograms \cup LoopPrograms
    \cup ScopePrograms \cup OrderPrograms \cup InitPrograms \cup AccessPrograms
    \cup ArgPrograms


\* main: the tree parse returned is handed to semantic
SemInit ==
    /\ \E prog \in SemPrograms :
          /\ lexer = tokenize(Source(prog))
          /\ lexer.pc = "returned"
          /\ parser = parse(lexer.tokens)
          /\ parser.pc = "returned"
          /\ sem = RuntimeNew(parser.ast)

\* the first loop of semantic: the DeclStmt nodes
SemanticFirstLoop ==
    /\ sem.pc = "run" /\ sem.stack = <<>> /\ sem.pass = 1
    /\ sem.idx <= Len(sem.ast)
    /\ sem' = IF sem.ast[sem.idx].k = "DeclStmt"
              THEN Call([sem EXCEPT !.idx = @ + 1], sem.ast[sem.idx])
              ELSE [sem EXCEPT !.idx = @ + 1]
    /\ UNCHANGED <<lexer, parser>>

\* the first loop ends and the second begins
SemanticNextLoop ==
    /\ sem.pc = "run" /\ sem.stack = <<>> /\ sem.pass = 1
    /\ sem.idx > Len(sem.ast)
    /\ sem' = [sem EXCEPT !.pass = 2, !.idx = 1]
    /\ UNCHANGED <<lexer, parser>>

\* the second loop of semantic: the other nodes
SemanticSecondLoop ==
    /\ sem.pc = "run" /\ sem.stack = <<>> /\ sem.pass = 2
    /\ sem.idx <= Len(sem.ast)
    /\ sem' = IF sem.ast[sem.idx].k # "DeclStmt"
              THEN Call([sem EXCEPT !.idx = @ + 1], sem.ast[sem.idx])
              ELSE [sem EXCEPT !.idx = @ + 1]
    /\ UNCHANGED <<lexer, parser>>

\* semantic returns new_nodes
SemanticReturn ==
    /\ sem.pc = "run" /\ sem.stack = <<>> /\ sem.pass = 2
    /\ sem.idx > Len(sem.ast)
    /\ sem' = [sem EXCEPT !.pc = "returned"]
    /\ UNCHANGED <<lexer, parser>>

TraverseDeclStmt ==
    /\ At_(sem, "DeclStmt", 0)
    /\ sem' = Leaf(sem)
    /\ UNCHANGED <<lexer, parser>>

TraverseAssign ==
    /\ At_(sem, "Assign", 0)
    /\ sem' = Leaf(sem)
    /\ UNCHANGED <<lexer, parser>>

TraverseExprStmt ==
    /\ At_(sem, "ExprStmt", 0)
    /\ sem' = Leaf(sem)
    /\ UNCHANGED <<lexer, parser>>

TraverseReturn ==
    /\ At_(sem, "Return", 0)
    /\ sem' = Leaf(sem)
    /\ UNCHANGED <<lexer, parser>>

TraverseBreak ==
    /\ At_(sem, "Break", 0)
    /\ sem' = Leaf(sem)
    /\ UNCHANGED <<lexer, parser>>

TraverseContinue ==
    /\ At_(sem, "Continue", 0)
    /\ sem' = Leaf(sem)
    /\ UNCHANGED <<lexer, parser>>

\* Block: "ctx.enter_scope()"
BlockEnter ==
    /\ At_(sem, "Block", 0)
    /\ sem' = Stage(enter_scope(sem), 1, <<>>)
    /\ UNCHANGED <<lexer, parser>>

\* Block: "for stmt in stmts { new_stmts.push(traverse(stmt)) }"
BlockStmt ==
    /\ At_(sem, "Block", 1)
    /\ Len(Top(sem).done) < Len(Top(sem).node.stmts)
    /\ sem' = Call(sem, Top(sem).node.stmts[Len(Top(sem).done) + 1])
    /\ UNCHANGED <<lexer, parser>>

\* Block: "ctx.exit_scope()" and the new Block
BlockExit ==
    /\ At_(sem, "Block", 1)
    /\ Len(Top(sem).done) = Len(Top(sem).node.stmts)
    /\ sem' = Return(exit_scope(sem),
                     bound(BlockNode(Top(sem).done), Top(sem).node.s, Top(sem).node.e))
    /\ UNCHANGED <<lexer, parser>>

\* If: the condition, then on_false when there is one, else on_true
IfCond ==
    /\ At_(sem, "If", 0)
    /\ sem' = IF Cond(sem).r.pc # "run" THEN Cond(sem).r
              ELSE IF Top(sem).node.on_false.some
              THEN Call(Stage(Cond(sem).r, 1, <<Cond(sem).n>>), Top(sem).node.on_false.v)
              ELSE Call(Stage(Cond(sem).r, 2, <<Cond(sem).n>>), Top(sem).node.on_true)
    /\ UNCHANGED <<lexer, parser>>

\* If: on_true, traversed after on_false
IfTrue ==
    /\ At_(sem, "If", 1)
    /\ sem' = Call(Stage(sem, 2, Top(sem).pre), Top(sem).node.on_true)
    /\ UNCHANGED <<lexer, parser>>

\* If: the new If
IfEnd ==
    /\ At_(sem, "If", 2)
    /\ sem' = Return(sem,
                 bound(IfNode(Top(sem).pre[1], Top(sem).done[Len(Top(sem).done)],
                              IF Top(sem).node.on_false.some
                              THEN Some(Top(sem).done[1]) ELSE NoNode),
                       Top(sem).node.s, Top(sem).node.e))
    /\ UNCHANGED <<lexer, parser>>

\* While: the condition, "ctx.startpos_loop()", then the body
WhileCond ==
    /\ At_(sem, "While", 0)
    /\ sem' = IF Cond(sem).r.pc # "run" THEN Cond(sem).r
              ELSE Call(Stage(startpos_loop(Cond(sem).r), 1, <<Cond(sem).n>>),
                        Top(sem).node.body)
    /\ UNCHANGED <<lexer, parser>>

\* While: "ctx.endpos_loop()" and the new While
WhileEnd ==
    /\ At_(sem, "While", 1)
    /\ sem' = Return(endpos_loop(sem),
                 bound(WhileNode(Top(sem).pre[1], Top(sem).done[1]),
                       Top(sem).node.s, Top(sem).node.e))
    /\ UNCHANGED <<lexer, parser>>

\* Func, up to the body: set_cur_func, enter_scope, the parameters, insert
func_enter(R) ==
    LET node == Top(R).node
        args == traverse_decls(node.params, 1,
                    enter_scope(set_cur_func(R, node.name, node.ret)), <<>>)
    IN IF args.r.pc # "run" THEN args.r
       ELSE Call(Stage(insert(args.r, node.name, FuncType(node.ret),
                              FuncNode(node.ret, node.name, args.n, node.body)),
                       1, args.n),
                 node.body)

FuncEnter ==
    /\ At_(sem, "Func", 0)
    /\ sem' = func_enter(sem)
    /\ UNCHANGED <<lexer, parser>>

\* Func: "ctx.exit_scope()" and the new Func
FuncExit ==
    /\ At_(sem, "Func", 1)
    /\ sem' = Return(exit_scope(sem),
                 bound(FuncNode(Top(sem).node.ret, Top(sem).node.name, Top(sem).pre,
                                Top(sem).done[1]),
                       Top(sem).node.s, Top(sem).node.e))
    /\ UNCHANGED <<lexer, parser>>

SemNext ==
    \/ SemanticFirstLoop
    \/ SemanticNextLoop
    \/ SemanticSecondLoop
    \/ SemanticReturn
    \/ TraverseDeclStmt
    \/ TraverseAssign
    \/ TraverseExprStmt
    \/ TraverseReturn
    \/ TraverseBreak
    \/ TraverseContinue
    \/ BlockEnter
    \/ BlockStmt
    \/ BlockExit
    \/ IfCond
    \/ IfTrue
    \/ IfEnd
    \/ WhileCond
    \/ WhileEnd
    \/ FuncEnter
    \/ FuncExit

SpecSem == SemInit /\ [][SemNext]_vars

(***************************************************************************)
(* Semantic claims.                                                        *)
(***************************************************************************)
Minimum(a, b) == IF a < b THEN a ELSE b

IsDeclStmt(node) == node.k = "DeclStmt"

\* the statements traversed so far, each with the node traverse has returned
\* for it: the top-level DeclStmt nodes with the first new_nodes, and the
\* statements of every Block under traversal with its new statements
Traversed(R) ==
    {<<SelectSeq(R.ast, IsDeclStmt)[j], R.new_nodes[j]>> :
        j \in 1..Minimum(Len(SelectSeq(R.ast, IsDeclStmt)), Len(R.new_nodes))}
    \cup UNION {{<<R.stack[f].node.stmts[j], R.stack[f].done[j]>> :
                    j \in 1..Len(R.stack[f].done)} :
                f \in {g \in 1..Len(R.stack) :
                         R.stack[g].node.k = "Block" /\ R.stack[g].stage = 1}}

\* the declarations with dimensions and an initializer among them, each with
\* its new declaration
ArrayDecls(R) ==
    UNION {{<<p[1].decls[i], p[2].decls[i]>> : i \in 1..Len(p[1].decls)} :
           p \in {q \in Traversed(R) : q[1].k = "DeclStmt"}}

RECURSIVE Product(_)
Product(ds) == IF ds = <<>> THEN 1 ELSE ds[1] * Product(Tail(ds))

RECURSIVE Leaves(_)
\* the initializers of a list that are no lists, in the order of the source
Leaves(inits) ==
    IF inits = <<>> THEN <<>>
    ELSE (IF inits[1].k = "InitList" THEN Leaves(inits[1].list) ELSE <<inits[1]>>)
         \o Leaves(Tail(inits))

RECURSIVE ListsAt(_, _)
\* the brace lists of an initializer, each with the number of lists around it
ListsAt(inits, level) ==
    {[list |-> inits, level |-> level]}
    \cup UNION {ListsAt(inits[i].list, level + 1) :
                  i \in {j \in 1..Len(inits) : inits[j].k = "InitList"}}

FromSource(node) == node.e # 0

Nums(nodes) == [i \in 1..Len(nodes) |-> nodes[i].num]

Spans(nodes) == [i \in 1..Len(nodes) |-> <<nodes[i].s, nodes[i].e>>]

\* new is the expansion of the initializer of old: the elements of the source
\* in their order, a literal as the Number of its value
Expanded(old, new) ==
    /\ new.inits.some
    /\ new.btype.dims = Nums(new.dims.v)
    /\ Len(new.inits.v) = Product(new.btype.dims)
    /\ Spans(SelectSeq(new.inits.v, FromSource)) = Spans(Leaves(old.inits.v))
    /\ \A i \in 1..Len(Leaves(old.inits.v)) :
          Leaves(old.inits.v)[i].k = "Number" =>
              SelectSeq(new.inits.v, FromSource)[i]
                 = ConstNumber(Leaves(old.inits.v)[i].num, Leaves(old.inits.v)[i].s,
                               Leaves(old.inits.v)[i].e)
    /\ \A i \in 1..Len(new.inits.v) :
          ~FromSource(new.inits.v[i]) =>
              new.inits.v[i].k = "Number" /\ new.inits.v[i].num = 0
    /\ \A l \in {m \in ListsAt(old.inits.v, 0) :
                    \A i \in 1..Len(Leaves(m.list)) : Leaves(m.list)[i].k = "Number"} :
          LET x == expand_inits(new.dims.v, l.list, old.scope = "Global",
                                RuntimeNew(<<>>), l.level)
          IN /\ x.r.pc = "run"
             /\ Len(x.n) = Product(SubSeq(new.btype.dims, l.level + 1,
                                          Len(new.btype.dims)))

\* int a[2][3] = {{1,2}};
ProgPadded ==
    ArrayDecl(<<>>, <<2, 3>>, Braces(<<Braces(<<<<"1">>, <<"2">>>>)>>))

\* C6: the new declaration of every array declared with an initializer
\* holds a flat list of d1*...*dn elements, the initializers of the source
\* in their order and the literal 0 everywhere else, and every brace list
\* under k lists expands to d(k+1)*...*dn elements; the global
\* int a[2][3] = {{1,2,3},{4,5,6}} gets type IntArray [2,3] and 1,2,3,4,5,6,
\* and int a[2][3] = {{1,2}} gets 1,2,0,0,0,0.
C6_InitializerExpansion ==
    /\ \A p \in ArrayDecls(sem) :
          p[1].dims.some /\ p[1].inits.some => Expanded(p[1], p[2])
    /\ sem.pc = "returned" /\ lexer.chars = Source(ProgArray) =>
          /\ sem.new_nodes[1].decls[1].btype = ArrayType("IntArray", <<2, 3>>)
          /\ Nums(sem.new_nodes[1].decls[1].inits.v) = <<1, 2, 3, 4, 5, 6>>
    /\ sem.pc = "returned" /\ lexer.chars = Source(ProgPadded) =>
          Nums(sem.new_nodes[1].decls[1].inits.v) = <<1, 2, 0, 0, 0, 0>>

C6_Witness ==
    /\ sem.pc = "returned"
    /\ lexer.chars = Source(ProgPadded)
    /\ Len(sem.new_nodes) = 1
    /\ Nums(sem.new_nodes[1].decls[1].inits.v) = <<1, 2, 0, 0, 0, 0>>

\* the target of the Assign under traversal resolves to a constant
ConstantTarget(R) ==
    /\ At_(R, "Assign", 0)
    /\ find(R, Top(R).node.name).r.pc = "run"
    /\ find(R, Top(R).node.name).var.basic_type.t \in {"Const", "ConstArray"}

\* C7: the traversal of an Assign whose target resolves to a Const or a
\* ConstArray ends the analysis at the check "Cannot assign to constant",
\* whatever the indexes and the right-hand side are; the analysis then has
\* ended for good and has returned no tree.
C7_AssignToConstant ==
    [][/\ ConstantTarget(sem) =>
             /\ sem'.pc = "panic"
             /\ sem'.fail.msg = "Cannot assign to constant"
             /\ sem'.new_nodes = sem.new_nodes
       /\ sem.pc = "panic" => sem'.pc = "panic"]_vars

C7_Witness ==
    /\ sem.pc = "panic"
    /\ sem.fail.msg = "Cannot assign to constant"
    /\ Top(sem).node.k = "Assign"
    /\ Top(sem).node.indexes.some
    /\ Top(sem).node.expr.k = "Access"

Range(seq) == {seq[i] : i \in 1..Len(seq)}

\* the nodes a node holds
Children(node) ==
    CASE node.k = "DeclStmt" -> Range(node.decls)
      [] node.k = "Decl" -> Range(node.dims.v) \cup Range(node.inits.v)
      [] node.k = "InitList" -> Range(node.list)
      [] node.k = "Assign" -> Range(node.indexes.v) \cup {node.expr}
      [] node.k = "ExprStmt" -> {node.expr}
      [] node.k = "Access" -> Range(node.indexes.v)
      [] node.k = "BinOp" -> {node.lhs, node.rhs}
      [] node.k = "Func" -> Range(node.params) \cup {node.body}
      [] node.k = "Block" -> Range(node.stmts)
      [] node.k = "Return" -> IF node.expr.some THEN {node.expr.v} ELSE {}
      [] node.k = "Call" -> Range(node.args)
      [] node.k = "If" ->
           {node.cond, node.on_true}
           \cup (IF node.on_false.some THEN {node.on_false.v} ELSE {})
      [] node.k = "While" -> {node.cond, node.body}
      [] OTHER -> {}

RECURSIVE Nodes(_)
\* a node and all the nodes under it
Nodes(node) == {node} \cup UNION {Nodes(c) : c \in Children(node)}

\* the calls of a program
CallsOf(ast) == {n \in UNION {Nodes(ast[i]) : i \in 1..Len(ast)} : n.k = "Call"}

\* the call names a function of R that has another number of parameters
\* than the call has arguments
ArityMismatch(R, call) ==
    /\ find(R, call.name).r.pc = "run"
    /\ find(R, call.name).var.node.k = "Func"
    /\ Len(call.args) # Len(find(R, call.name).var.node.params)

\* C8: wherever a call of the program names a function with another number
\* of parameters than the call has arguments, too many or too few, the
\* traversal of the call ends the analysis at the check "Argument length",
\* and the analysis of a program with such a call never returns a tree.
C8_ArityMismatch ==
    /\ sem.pc = "run" =>
          \A call \in CallsOf(sem.ast) :
              ArityMismatch(sem, call) =>
                  /\ traverse(call, sem).r.pc = "panic"
                  /\ traverse(call, sem).r.fail.msg = "Argument length"
                  /\ traverse(call, sem).r.new_nodes = sem.new_nodes
    /\ sem.pc = "returned" =>
          \A call \in CallsOf(sem.ast) :
              ~ArityMismatch([sem EXCEPT !.pc = "run"], call)

C8_Witness ==
    /\ sem.pc = "panic"
    /\ sem.fail.msg = "Argument length"
    /\ Top(sem).node.k = "Return"
    /\ Top(sem).node.expr.v.k = "Call"
    /\ Len(Top(sem).node.expr.v.args) = 2
    /\ Len(sem.global[Top(sem).node.expr.v.name].node.params) = 1

\* the frames of the While statements whose body is under traversal
WhileBodies(R) ==
    {f \in 1..Len(R.stack) : R.stack[f].node.k = "While" /\ R.stack[f].stage = 1}

\* the message of the check a Break or a Continue outside a loop fails at
NotInLoop(node) ==
    IF node.k = "Break" THEN "Break should in a loop" ELSE "Continue should in a loop"

\* C9: loop_count is the number of while bodies around the statement under
\* traversal: it goes up by one on entering a while body, down by one on
\* leaving it, and changes nowhere else, so it is never negative.  A Break
\* or a Continue inside a while body is traversed and returned; outside of
\* every while body it ends the analysis at the check of is_in_loop.
C9_BreakContinueInLoop ==
    [][/\ sem.loop_count = Cardinality(WhileBodies(sem))
       /\ sem'.loop_count = Cardinality(WhileBodies(sem'))
       /\ sem'.loop_count - sem.loop_count =
             (IF At_(sem, "While", 0) /\ sem'.pc = "run" THEN 1
              ELSE IF At_(sem, "While", 1) THEN -1 ELSE 0)
       /\ At_(sem, "Break", 0) \/ At_(sem, "Continue", 0) =>
             IF WhileBodies(sem) # {}
             THEN /\ sem'.pc = "run"
                  /\ sem'.stack[Len(sem.stack) - 1].done
                       = Append(sem.stack[Len(sem.stack) - 1].done, Top(sem).node)
             ELSE /\ sem'.pc = "panic"
                  /\ sem'.fail.msg = NotInLoop(Top(sem).node)
                  /\ sem'.new_nodes = sem.new_nodes]_vars

C9_Witness ==
    /\ sem.pc = "run"
    /\ sem.loop_count = 2
    /\ Top(sem).node.k = "While"
    /\ Top(sem).done # <<>>
    /\ Top(sem).done[1].k = "Break"

\* the frames of the Block and Func nodes whose scope is entered
Scopes(R) ==
    {f \in 1..Len(R.stack) :
        R.stack[f].node.k \in {"Block", "Func"} /\ R.stack[f].stage = 1}

\* the traversal of a Block or of a Func is about to leave its scope
AtExit(R) ==
    \/ At_(R, "Block", 1) /\ Len(Top(R).done) = Len(Top(R).node.stmts)
    \/ At_(R, "Func", 1)

\* C11: local holds one frame for every Block and every Func whose scope has
\* been entered and not left.  Entering a Block pushes one empty frame,
\* entering a Func pushes one frame (which then holds the parameters), leaving
\* either pops the last frame, which is there to pop; every other step keeps
\* the depth and the frames under the last one.  local is empty whenever no
\* top-level node is under traversal.
C11_ScopeDiscipline ==
    [][/\ Len(sem.local) = Cardinality(Scopes(sem))
       /\ sem'.pc # "panic" =>
             /\ Len(sem'.local) = Cardinality(Scopes(sem'))
             /\ IF At_(sem, "Block", 0)
                THEN sem'.local = Append(sem.local, EmptyMap)
                ELSE IF At_(sem, "Func", 0)
                THEN /\ Len(sem'.local) = Len(sem.local) + 1
                     /\ SubSeq(sem'.local, 1, Len(sem.local)) = sem.local
                ELSE IF AtExit(sem)
                THEN /\ sem.local # <<>>
                     /\ sem'.local = SubSeq(sem.local, 1, Len(sem.local) - 1)
                ELSE /\ Len(sem'.local) = Len(sem.local)
                     /\ SubSeq(sem'.local, 1, Len(sem.local) - 1)
                          = SubSeq(sem.local, 1, Len(sem.local) - 1)
             /\ sem'.stack = <<>> => sem'.local = <<>>]_vars

\* a block in the body of a function has been left: the frames of the
\* function and of its body are there again, the body's with its declaration
C11_Witness ==
    /\ At_(sem, "Block", 1)
    /\ Len(sem.local) = 2
    /\ DOMAIN sem.local[2] # {}
    /\ Top(sem).done # <<>>
    /\ Top(sem).done[Len(Top(sem).done)].k = "Block"

RECURSIVE DeclSeq(_)
\* the Decl nodes of the DeclStmt nodes of a sequence of nodes, in order
DeclSeq(nodes) ==
    IF nodes = <<>> THEN <<>>
    ELSE (IF Head(nodes).k = "DeclStmt" THEN Head(nodes).decls ELSE <<>>)
         \o DeclSeq(Tail(nodes))

Named(nodes, name) == SelectSeq(nodes, LAMBDA d : d.name = name)

\* the declarations traversed so far in the scope of frame f: the
\* parameters of a Func, the declarations among the statements of a Block
DeclaredIn(R, f, name) ==
    Named(IF R.stack[f].node.k = "Func" THEN R.stack[f].pre
          ELSE DeclSeq(R.stack[f].done), name)

\* the global declarations traversed so far, and then the functions entered
GlobalDecls(R, name) ==
    Named(DeclSeq(R.new_nodes), name)
    \o Named(SelectSeq(R.new_nodes, LAMBDA n : n.k = "Func"), name)
    \o Named(IF R.stack # <<>> /\ R.stack[1].node.k = "Func" /\ R.stack[1].stage = 1
             THEN <<R.stack[1].node>> ELSE <<>>, name)

Last(seq) == seq[Len(seq)]

\* the binding of name by the scopes of the program text: the last
\* declaration of the innermost scope under traversal that declares name,
\* and then the last global one
Lexical(R, name) ==
    LET within == {f \in Scopes(R) : DeclaredIn(R, f, name) # <<>>}
    IN IF within # {}
       THEN Some(Last(DeclaredIn(R, Maximum(within), name)))
       ELSE IF GlobalDecls(R, name) # <<>> THEN Some(Last(GlobalDecls(R, name)))
       ELSE NoNode

ScopeNames == {<<"x">>, <<"y">>, <<"f">>, <<"main">>}

\* C12: at every point of the traversal find resolves a name to its
\* declaration in the innermost scope entered and not left that declares it,
\* then to the global one; a name declared in neither ends the analysis in
\* find (unreachable!()).  An Assign is traversed with the binding found so.
C12_Lookup ==
    sem.pc = "run" =>
       /\ \A name \in ScopeNames :
             LET b == Lexical(sem, name)
                 x == find(sem, name)
             IN IF ~b.some
                THEN x.r.pc = "panic" /\ x.r.fail.kind = "unreachable"
                ELSE /\ x.r = sem
                     /\ x.var.node.k = b.v.k
                     /\ b.v.k = "Decl" =>
                           x.var = Var(b.v.btype, b.v)
                     /\ b.v.k = "Func" =>
                           x.var.basic_type = FuncType(b.v.ret)
       /\ At_(sem, "Assign", 0) =>
             LET b == Lexical(sem, Top(sem).node.name)
                 a == go("traverse", Top(sem).node, sem)
             IN IF ~b.some
                THEN a.r.pc = "panic" /\ a.r.fail.kind = "unreachable"
                ELSE a.r.pc = "run" /\ b.v.btype.t = "IntArray" =>
                        a.n.lhs = typed(b.v, b.v.btype)

\* a block that declared x as int[3] has been left in a body that declared x
\* as int[2] over a global int[1]: x is the int[2] again
C12_Witness ==
    /\ At_(sem, "Assign", 0)
    /\ Top(sem).node.name = <<"x">>
    /\ <<"x">> \in DOMAIN sem.global
    /\ Len(sem.stack) = 3
    /\ sem.stack[2].done # <<>>
    /\ LET blk == Last(sem.stack[2].done)
       IN /\ blk.k = "Block"
          /\ Named(DeclSeq(blk.stmts), <<"x">>) # <<>>
          /\ Last(Named(DeclSeq(blk.stmts), <<"x">>)).btype.dims = <<3>>
    /\ find(sem, <<"x">>).var.basic_type.dims = <<2>>

\* the name a top-level node declares first
TopName(node) ==
    IF node.k = "Func" THEN node.name
    ELSE IF node.k = "DeclStmt" /\ node.decls # <<>> THEN node.decls[1].name
    ELSE <<>>

\* node i of the annotated tree is rebuilt from node i of the parsed tree
SameOrder(R) ==
    /\ Len(R.new_nodes) = Len(R.ast)
    /\ \A i \in 1..Len(R.ast) :
          /\ R.new_nodes[i].k = R.ast[i].k
          /\ TopName(R.new_nodes[i]) = TopName(R.ast[i])

\* every node of the annotated tree has the span of the node at its place
SameSpans(R) ==
    \A i \in 1..Minimum(Len(R.new_nodes), Len(R.ast)) :
       /\ R.new_nodes[i].s = R.ast[i].s
       /\ R.new_nodes[i].e = R.ast[i].e

\* C13: when semantic returns, the annotated tree has one node per top-level
\* node of the parsed tree, in the order of the parsed tree, each with the
\* span of the node it was rebuilt from.
C13_SameShape == sem.pc = "returned" => SameOrder(sem) /\ SameSpans(sem)

\* the declarations of a tree
DeclsOf(ast) == {n \in UNION {Nodes(ast[i]) : i \in 1..Len(ast)} : n.k = "Decl"}

\* const, or at global scope
ConstOrGlobal(decl) == decl.btype.t \in {"Const", "ConstArray"} \/ decl.scope = "Global"

\* the names declared const in a program
ConstNames(ast) == {d.name : d \in {n \in DeclsOf(ast) : n.btype.t = "Const"}}

RECURSIVE NotConstant(_, _)
\* the expression calls a function or reads a symbol that is not constant
NotConstant(node, consts) ==
    CASE node.k = "Call" -> TRUE
      [] node.k = "Access" -> node.name \notin consts
      [] node.k = "BinOp" -> NotConstant(node.lhs, consts) \/ NotConstant(node.rhs, consts)
      [] OTHER -> FALSE

\* the const or global declarations of the program with an initializer
\* element that is not a constant expression
NotConstantDecls(ast) ==
    {d \in DeclsOf(ast) :
        /\ ConstOrGlobal(d)
        /\ \E i \in 1..Len(Leaves(d.inits.v)) :
              NotConstant(Leaves(d.inits.v)[i], ConstNames(ast))}

\* the messages of eval for an expression that is not constant
NotConstantMsgs == {"should be a constant", "Cannot call function in constant expression"}

\* C19: when semantic returns, every initializer element of every const or
\* global declaration of the annotated tree, scalar or array, local const
\* arrays included, is an integer literal of type Const; and the analysis
\* of a program with a const or global declaration that has an initializer
\* element which is not a constant expression ends in the error of eval.
C19_ConstInitializers ==
    /\ sem.pc = "returned" =>
          \A d \in DeclsOf(sem.new_nodes) :
             ConstOrGlobal(d) =>
                \A i \in 1..Len(d.inits.v) :
                   d.inits.v[i].k = "Number" /\ d.inits.v[i].ty = BasicType("Const")
    /\ sem.pc \in {"returned", "panic"} /\ NotConstantDecls(parser.ast) # {} =>
          sem.pc = "panic" /\ sem.fail.msg \in NotConstantMsgs

\* the dimensions of a declaration of the parsed tree, when they are literals
LiteralDims(decl) == \A i \in 1..Len(decl.dims.v) : decl.dims.v[i].k = "Number"
DimNums(decl) == Nums(decl.dims.v)

RECURSIVE FlatLen(_, _, _)
\* the number of elements a brace list under `level` lists expands to: one
\* for an element, and for a list in it the product of the dimensions below,
\* since that list is filled up
FlatLen(inits, ds, level) ==
    IF inits = <<>> THEN 0
    ELSE (IF inits[1].k = "InitList" THEN Product(SubSeq(ds, level + 2, Len(ds))) ELSE 1)
         + FlatLen(Tail(inits), ds, level)

\* the brace list is nested deeper than the dimensions
TooDeep(decl, l) == l.level >= Len(decl.dims.v)

\* the brace list expands to more elements than the product of the
\* dimensions at its level
TooLong(decl, l) ==
    /\ ~TooDeep(decl, l)
    /\ FlatLen(l.list, DimNums(decl), l.level)
          > Product(SubSeq(DimNums(decl), l.level + 1, Len(decl.dims.v)))

\* the array declarations of the parsed tree whose initializer overflows
OverflowDecls(ast) ==
    {d \in DeclsOf(ast) :
        /\ d.dims.some /\ d.inits.some /\ LiteralDims(d)
        /\ \E l \in ListsAt(d.inits.v, 0) : TooDeep(d, l) \/ TooLong(d, l)}

OverflowMsgs == {"Length of initializer exceeded", "Dimension of initializer exceeded"}

\* the analysis has ended in the length or dimension check of expand_inits;
\* the check reads the last element of the list for its report, and on a list
\* without elements the analysis ends in that read
EndsInOverflow(R) ==
    R.pc = "panic" /\ (R.fail.msg \in OverflowMsgs \/ R.fail.kind = "unwrap")

\* C20: no declaration of the annotated tree has more initializer elements
\* than the product of its dimensions, and the analysis of a program with an
\* array declaration in which a brace list at some level expands to more
\* elements than the product of the dimensions at that level, or is nested
\* deeper than the dimensions, ends in the length or dimension error and
\* returns no tree.
C20_InitializerOverflow ==
    /\ \A p \in ArrayDecls(sem) :
          p[2].dims.some /\ p[2].inits.some =>
             Len(p[2].inits.v) <= Product(p[2].btype.dims)
    /\ sem.pc \in {"returned", "panic"} /\ OverflowDecls(parser.ast) # {} =>
          EndsInOverflow(sem)

\* the analysis ended in the length check of a list inside the initializer
\* of a two-dimensional array whose outer list is not too long
C20_Witness ==
    /\ sem.pc = "panic"
    /\ sem.fail.msg = "Length of initializer exceeded"
    /\ \E d \in OverflowDecls(parser.ast) :
          /\ Len(d.dims.v) = 2
          /\ ~TooLong(d, [list |-> d.inits.v, level |-> 0])
          /\ \E l \in ListsAt(d.inits.v, 0) : l.level = 1 /\ TooLong(d, l)

\* the indexes of an access, none when it has no index list
IndexesOf(node) == IF node.indexes.some THEN node.indexes.v ELSE <<>>

\* the element type of an array type
ElementOf(ty) == IF ty.t = "IntArray" THEN BasicType("Int") ELSE BasicType("Const")

\* every index is traversed without an error and is typed Int or Const
IndexesTyped(R, node) ==
    \A i \in 1..Len(IndexesOf(node)) :
       LET ix == go("traverse", IndexesOf(node)[i], R)
       IN ix.r.pc = "run" /\ IsIntOrConst(ix.n.ty)

\* the result x of traverse for the access node of a symbol of type ty,
\* declared with the initializer value, is the one stated for ty
AccessTyped(R, node, ty, value, x) ==
    LET k == Len(IndexesOf(node))
        n == Len(ty.dims)
    IN CASE ty.t \in {"IntArray", "ConstArray"} ->
              IF ~IndexesTyped(R, node) \/ k > n THEN x.r.pc = "panic"
              ELSE /\ x.r = R
                   /\ x.n.k = "Access"
                   /\ x.n.name = node.name
                   /\ Len(IndexesOf(x.n)) = k
                   /\ x.n.ty = IF k = n THEN ElementOf(ty)
                               ELSE ArrayType(ty.t, SubSeq(ty.dims, k + 1, n))
         [] ty.t = "Const" ->
              k = 0 => /\ x.r = R
                       /\ x.n.k = "Number"
                       /\ x.n.ty = BasicType("Const")
                       /\ x.n.num = value
         [] ty.t = "Int" ->
              x.r = R /\ x.n.k = "Access" /\ x.n.ty = BasicType("Int")
         [] OTHER -> TRUE

\* the expression of the expression statement about to be traversed is an
\* access of a declared variable
AtAccess(R) ==
    /\ At_(R, "ExprStmt", 0)
    /\ Top(R).node.expr.k = "Access"
    /\ find(R, Top(R).node.expr.name).r.pc = "run"
    /\ find(R, Top(R).node.expr.name).var.node.k = "Decl"

\* the value a Const scalar was declared with
DeclaredValue(var) ==
    IF var.basic_type.t = "Const" /\ var.node.inits.some
       /\ Len(var.node.inits.v) = 1 /\ var.node.inits.v[1].k = "Number"
    THEN var.node.inits.v[1].num ELSE 0

Pending(R) ==
    IF R.pc # "run" \/ R.stack = <<>> \/ Top(R).stage # 0 THEN NilNode
    ELSE IF Top(R).node.k = "ExprStmt" THEN Top(R).node.expr
    ELSE IF Top(R).node.k \in {"If", "While"} THEN Top(R).node.cond
    ELSE NilNode

\* it is a binary operation whose operands are traversed without an error,
\* the left one first
AtBinOp(R) ==
    /\ Pending(R).k = "BinOp"
    /\ go("traverse", Pending(R).lhs, R).r.pc = "run"
    /\ go("traverse", Pending(R).rhs, go("traverse", Pending(R).lhs, R).r).r.pc = "run"

\* the result x of traverse for the binary operation node whose operands
\* are traversed to l and r
BinOpTyped(R, node, l, r, x) ==
    CASE ~(IsIntOrConst(l.ty) /\ IsIntOrConst(r.ty)) -> x.r.pc = "panic"
      [] l.ty = BasicType("Const") /\ r.ty = BasicType("Const") ->
           /\ x.r.pc = "run"
           /\ x.n.k = "Number"
           /\ x.n.ty = BasicType("Const")
           /\ go("eval", node, R).r.pc = "run"
           /\ x.n.num = go("eval", node, R).v
      [] OTHER ->
           /\ x.r.pc = "run"
           /\ x.n.k = "BinOp"
           /\ x.n.op = node.op
           /\ x.n.lhs = l
           /\ x.n.rhs = r
           /\ x.n.ty = BasicType("Int")

\* C22: traverse of a binary operation ends the analysis unless both
\* operands are typed Int or Const after their traversal; with both typed
\* Const the result is one Number typed Const whose value is eval of the
\* operation; in every other accepted case it is the BinOp over the
\* annotated operands, typed Int.
C22_BinOpTyping ==
    AtBinOp(sem) =>
       LET node == Pending(sem)
           l == go("traverse", node.lhs, sem)
           r == go("traverse", node.rhs, l.r)
       IN BinOpTyped(sem, node, l.n, r.n, go("traverse", node, sem))

\* the expression about to be traversed is a call with one argument of a
\* function of one parameter, and the argument is traversed without an error
AtCallOfOne(R) ==
    /\ Pending(R).k = "Call"
    /\ Len(Pending(R).args) = 1
    /\ find(R, Pending(R).name).r.pc = "run"
    /\ find(R, Pending(R).name).var.node.k = "Func"
    /\ Len(find(R, Pending(R).name).var.node.params) = 1
    /\ go("traverse", Pending(R).args[1], R).r.pc = "run"

\* a parameter of type def accepts an argument of type ty
Accepts(def, ty) ==
    \/ def = BasicType("Int") /\ IsIntOrConst(ty)
    \/ /\ def.t = "IntArray" /\ ty.t = "IntArray"
       /\ Len(ty.dims) = Len(def.dims)
       /\ \A j \in 2..Len(def.dims) : ty.dims[j] = def.dims[j]

\* C23: the call goes through if its parameter accepts the argument: a
\* scalar Int parameter an argument typed Int or Const, an array parameter an
\* array of as many dimensions with the same sizes from the second on; every
\* other pair ends the analysis at the check of the argument.
C23_ArgumentTypes ==
    AtCallOfOne(sem) =>
       LET def == find(sem, Pending(sem).name).var.node.params[1].btype
           arg == go("traverse", Pending(sem).args[1], sem).n
           x == go("traverse", Pending(sem), sem)
       IN IF Accepts(def, arg.ty)
          THEN x.r.pc = "run" /\ x.n.k = "Call" /\ x.n.args = <<arg>>
          ELSE /\ x.r.pc = "panic"
               /\ x.r.fail.msg \in {"Unmatched type in function call",
                                    "error_spot dimension in function call"}
\* operands over the range of an i32: its ends, zero and values of both signs
OperandSamples == {MinI32, -8, -7, -1, 0, 1, 2, 7, MaxI32}

RECURSIVE Quotient(_, _)
\* the quotient of l by r rounded towards zero
Quotient(l, r) ==
    IF r = MinI32 THEN (IF l = MinI32 THEN 1 ELSE 0)
    ELSE IF r < 0 THEN -Quotient(l, -r)
    ELSE l \div r + (IF l < 0 /\ l % r # 0 THEN 1 ELSE 0)

\* the standard result of the operator
Standard(op, l, r) ==
    CASE op = "Plus" -> l + r
      [] op = "Minus" -> l - r
      [] op = "Multi" -> l * r
      [] op = "Divide" -> IF r = 0 THEN 0 ELSE Quotient(l, r)
      [] op = "Mods" -> IF r = 0 THEN 0 ELSE l - r * Quotient(l, r)
      [] op = "Lesserthan" -> IF l < r THEN 1 ELSE 0
      [] op = "Greaterthan" -> IF l > r THEN 1 ELSE 0
      [] op = "LessEqual" -> IF l <= r THEN 1 ELSE 0
      [] op = "GreatEqual" -> IF l >= r THEN 1 ELSE 0
      [] op = "Equal" -> IF l = r THEN 1 ELSE 0
      [] op = "NotEqual" -> IF l # r THEN 1 ELSE 0
      [] op = "And" -> IF l # 0 /\ r # 0 THEN 1 ELSE 0
      [] op = "Or" -> IF l # 0 \/ r # 0 THEN 1 ELSE 0

\* C24: wherever a binary operation is about to be traversed, eval of every
\* operator over two literal operands of the range of an i32 returns, and
\* returns the standard result of the operator.
C24_EvalOperators ==
    Pending(sem).k = "BinOp" =>
       \A op \in CalcSorts : \A l, r \in OperandSamples :
          LET x == go("eval", binary_operation(op, NumberNode(l), NumberNode(r)), sem)
          IN x.r.pc = "run" /\ x.v = Standard(op, l, r)
\* the table a declaration is inserted in: the global one when no local
\* frame is active, the innermost frame otherwise
CurrentScope(R) == IF R.local = <<>> THEN R.global ELSE R.local[Len(R.local)]

\* the declaration statement about to be traversed declares a name that its
\* scope already binds to a variable
Redeclares(R) ==
    /\ At_(R, "DeclStmt", 0)
    /\ \E i \in 1..Len(Top(R).node.decls) :
          /\ Top(R).node.decls[i].name \in DOMAIN CurrentScope(R)
          /\ CurrentScope(R)[Top(R).node.decls[i].name].node.k = "Decl"

\* C25: the traversal of a declaration of a name that is already declared in
\* the same scope ends the analysis, and the scope keeps the earlier binding.
C25_Redefinition ==
    Redeclares(sem) =>
       LET x == go("traverse", Top(sem).node, sem)
       IN x.r.pc = "panic" /\ x.r.global = sem.global /\ x.r.local = sem.local
RECURSIVE RowMajor(_, _, _)
\* the row-major offset ((i1*d2 + i2)*d3 + ...) + in of the first k indexes
RowMajor(index, dims, k) ==
    IF k = 0 THEN 0 ELSE RowMajor(index, dims, k - 1) * dims[k] + index[k]

\* the lists of at most one index more than MaxDim, every index below MaxDim
IndexLists == UNION {[1..k -> 0..(MaxDim - 1)] : k \in 0..(MaxDim + 1)}

\* the global constant arrays that are declared with an initializer
ConstArrays(R) ==
    {name \in DOMAIN R.global :
        /\ R.global[name].basic_type.t = "ConstArray"
        /\ R.global[name].node.k = "Decl"
        /\ R.global[name].node.inits.some}

\* the access of name with the literals of index as its indexes
LiteralAccess(name, index) ==
    AccessNode(name, IF index = <<>> THEN NoList
                     ELSE Some([i \in 1..Len(index) |-> NumberNode(index[i])]),
               NilNode)

\* C26: between the top-level nodes, eval of the access of a constant array
\* of dimensions d1..dn and flattened initializer v with n literal indexes
\* returns v[offset] for the row-major offset of the indexes; an offset
\* outside v, and a number of indexes other than n, end the analysis.
C26_ConstArrayElement ==
    sem.pc = "run" /\ sem.stack = <<>> =>
       \A name \in ConstArrays(sem) : \A index \in IndexLists :
          LET dims == sem.global[name].basic_type.dims
              v == sem.global[name].node.inits.v
              offset == RowMajor(index, dims, Len(index))
              x == go("eval", LiteralAccess(name, index), sem)
          IN IF Len(index) = Len(dims) /\ offset < Len(v)
             THEN x.r.pc = "run" /\ x.v = v[offset + 1].num
             ELSE x.r.pc = "panic"
\* the scan loop runs on as long as it can: tokenize is one sequential call
SpecLexLive == SpecLex /\ WF_vars(LexNext)

\* C27: on every buffer tokenize ends, by returning the tokens or by the
\* panic after the scan, also when the buffer ends within a line comment.
C27_Terminates == <>LexEnded
\* token i ends where or before token i + 1 starts
Ordered(tokens) ==
    \A i \in 1..(Len(tokens) - 1) : tokens[i].endpos <= tokens[i + 1].startpos

\* C28: at every point of the scan every token pushed so far has a span
\* with startpos < endpos <= the length of the buffer, and the tokens are in
\* the order of the buffer and do not overlap.
C28_TokenSpans ==
    /\ \A i \in 1..Len(lexer.tokens) :
          /\ lexer.tokens[i].startpos < lexer.tokens[i].endpos
          /\ lexer.tokens[i].endpos <= Len(lexer.chars)
    /\ Ordered(lexer.tokens)
\* the offsets just after the linefeeds that precede offset pos
LinefeedsBefore(chars, pos) == {j \in 1..pos : chars[j] = "\n"}

\* C29: at every point of the scan there are as many recorded line starts
\* as the line number says, and every token pushed so far has the line
\* number 1 + the number of linefeeds before its startpos and the line start
\* just after the last of them (0 on line 1), whether the linefeeds were
\* scanned by the loop or inside a block comment.
C29_LineTracking ==
    /\ Len(lexer.line_starts) = lexer.line_no
    /\ \A i \in 1..Len(lexer.tokens) :
          LET t == lexer.tokens[i]
              before == LinefeedsBefore(lexer.chars, t.startpos)
          IN /\ t.line_no = 1 + Cardinality(before)
             /\ t.line_start = IF before = {} THEN 0 ELSE Maximum(before)

\* a token on line 3, after a linefeed of the scan loop and one in a block
\* comment
C29_Witness ==
    /\ lexer.pc = "returned"
    /\ Len(lexer.chars) > 6
    /\ SubSeq(lexer.chars, 1, 6) = <<"\n", "/", "*", "\n", "*", "/">>
    /\ lexer.tokens # <<>>
    /\ lexer.tokens[1].line_no = 3
    /\ lexer.tokens[1].line_start = 4
\* the parse is halted right after a report (get_basic_type and decl_stmt
\* halt after theirs); every other halt is the read of tokens[current] with
\* the cursor outside the tokens
ReportedHalt(P) ==
    /\ P.pc = "panic"
    /\ P.diag # <<>>
    /\ Last(P.diag).from \in {"get_basic_type", "decl_stmt"}

\* C30: in every step of parse the cursor stays within the number of tokens
\* and no token is read at an index outside them, so that the parse halts
\* only after a report; every call of comp_unit that returns has moved the
\* cursor forward; and parse returns with the cursor at the number of tokens.
C30_CursorSafety ==
    [][/\ parser'.current <= Len(parser'.tokens)
       /\ parser'.pc = "panic" => ReportedHalt(parser')
       /\ parser.pc = "run" /\ parser'.pc = "run" => parser'.current > parser.current
       /\ parser'.pc = "returned" => parser'.current = Len(parser'.tokens)]_vars

====
